---- MODULE Spec2Model ----
(***************************************************************************)
(* Model of the credential resolution subsystem of aipitboss:              *)
(*   - the stateless resolver KeyManager._get_api_key_static (packaged as  *)
(*     the static KeyManager.get_api_key), _load_from_file and save_keys;  *)
(*   - the stateful registry KeyManager (__init__, _load_all_keys,         *)
(*     _validate_keys, add_key, _validate_service_key, update_key,         *)
(*     available_services, get_api_key);                                   *)
(*   - AiService.__init__ on top of a registry, and the token budget and   *)
(*     chat_completion of an AiService.                                    *)
(*                                                                         *)
(* Python strings that the code transforms (service names, key names of a  *)
(* key file, environment variable names) are sequences of one-character    *)
(* strings, so that str.upper() and f-string concatenation are computed.   *)
(* API keys are opaque and are TLA+ strings; "" is the empty key.          *)
(* Python dicts are functions with a finite domain; a list object is a     *)
(* reference into `heap`, so that two dicts can share one list.            *)
(***************************************************************************)
EXTENDS Integers, Sequences, FiniteSets, TLC

VARIABLES
    env,            \* os.environ: variable name -> value
    files,          \* file system: path -> [exists, json, keys]
    custom_dir,     \* whether the directory of the "custom" path exists
    constructed,    \* whether KeyManager.__init__ has been entered
    keys_file,      \* self.keys_file
    use_env,        \* self.use_env
    services_info,  \* self.services_info: service -> [api_key, source, valid, models]
    heap,           \* list objects: reference -> sequence of model identifiers
    pc,             \* position of the program: "new", "validating", "ready",
                    \* "done" (ended), "service" (it goes on with an AiService)
    todo,           \* services _validate_keys has still to visit
    returned,       \* the dict a caller holds from available_services()
    has_returned,   \* whether the caller holds such a dict
    nops,           \* number of calls made so far
    ai,             \* the AiService object constructed on the registry
    chat,           \* the Chat object that uses the AiService object
    openai_service, \* the OpenAIService object
    last            \* the last call: its arguments and its outcome

vars == <<env, files, custom_dir, constructed, keys_file, use_env, services_info,
          heap, pc, todo, returned, has_returned, nops, ai, chat, openai_service,
          last>>

(***************************************************************************)
(* Bounds of the model.                                                    *)
(***************************************************************************)
MaxOps == 1        \* calls that change the registry, the returned dict or a key file
MaxFileKeys == 3   \* entries of a key file in the initial file system
MaxCalls == 4      \* calls made on an AiService object

(***************************************************************************)
(* Python values.                                                          *)
(***************************************************************************)
None == "None"

\* a test that lets the empty string pass
Mut_Truthy_not_None(v) == v # None

\* `if key:` -- None and the empty string are falsy
Truthy(v) == v # None /\ v # ""

EmptyDict == [x \in {} |-> None]

\* d[k] = v
Put(d, k, v) == [x \in (DOMAIN d) \cup {k} |-> IF x = k THEN v ELSE d[x]]

\* dict.update
DictUpdate(d, m) == [x \in (DOMAIN d) \cup (DOMAIN m) |-> IF x \in DOMAIN m THEN m[x] ELSE d[x]]

LowerChars == <<"a","b","c","d","e","f","g","h","i","j","k","l","m",
                "n","o","p","q","r","s","t","u","v","w","x","y","z">>
UpperChars == <<"A","B","C","D","E","F","G","H","I","J","K","L","M",
                "N","O","P","Q","R","S","T","U","V","W","X","Y","Z">>

UpperMap ==
    [c \in {LowerChars[i] : i \in 1..Len(LowerChars)} |->
        UpperChars[CHOOSE i \in 1..Len(LowerChars) : LowerChars[i] = c]]

UpperChar(c) == IF c \in DOMAIN UpperMap THEN UpperMap[c] ELSE c

\* str.upper()
str_upper(s) == [i \in 1..Len(s) |-> UpperChar(s[i])]

\* a test that takes no name for a comment
Mut_StartsWithUnderscore_never(s) == FALSE

\* str.startswith("_")
StartsWithUnderscore(s) == Len(s) > 0 /\ s[1] = "_"

(***************************************************************************)
(* Names.                                                                  *)
(***************************************************************************)
openai      == <<"o","p","e","n","a","i">>
anthropic   == <<"a","n","t","h","r","o","p","i","c">>
huggingface == <<"h","u","g","g","i","n","g","f","a","c","e">>
foobar      == <<"f","o","o","b","a","r">>
comment     == <<"c","o","m","m","e","n","t">>
_comment    == <<"_","c","o","m","m","e","n","t">>

OPENAI_API_KEY    == <<"O","P","E","N","A","I","_","A","P","I","_","K","E","Y">>
ANTHROPIC_API_KEY == <<"A","N","T","H","R","O","P","I","C","_","A","P","I","_","K","E","Y">>
HF_API_KEY        == <<"H","F","_","A","P","I","_","K","E","Y">>

_api_key == <<"_","a","p","i","_","k","e","y">>
_API_KEY == <<"_","A","P","I","_","K","E","Y">>

ENV_PREFIXES ==
    [s \in {openai, anthropic, huggingface} |->
        IF s = openai THEN OPENAI_API_KEY
        ELSE IF s = anthropic THEN ANTHROPIC_API_KEY
        ELSE HF_API_KEY]

\* services with an entry in both BASE_URLS and TEST_ENDPOINTS
BASE_URLS == {openai, anthropic, huggingface}
TEST_ENDPOINTS == {openai, anthropic, huggingface}

\* ENV_PREFIXES.get(service, service.upper() + "_API_KEY")
EnvVarFor(service) ==
    IF service \in DOMAIN ENV_PREFIXES
    THEN ENV_PREFIXES[service]
    ELSE str_upper(service) \o _API_KEY

\* os.environ.get(var)
environ_get(e, var) == IF var \in DOMAIN e THEN e[var] ELSE None

(***************************************************************************)
(* The file system.  A path holds no file, a file that is not JSON, or a   *)
(* flat JSON object (the key file format).                                 *)
(***************************************************************************)
LOCAL_KEYS_FILE   == "local"     \* <cwd>/.keys.json
DEFAULT_KEYS_FILE == "home"      \* ~/.aipitboss_keys.json
PARENT_KEYS_FILE  == "parent"    \* <parent of cwd>/.keys.json
CUSTOM_KEYS_FILE  == "custom"    \* a path chosen by the caller

Paths == {CUSTOM_KEYS_FILE, LOCAL_KEYS_FILE, PARENT_KEYS_FILE, DEFAULT_KEYS_FILE}

Absent       == [exists |-> FALSE, json |-> FALSE, keys |-> EmptyDict]
NotJson      == [exists |-> TRUE,  json |-> FALSE, keys |-> EmptyDict]
JsonFile(d)  == [exists |-> TRUE,  json |-> TRUE,  keys |-> d]

\* os.path.exists(path); a falsy path (None) is never looked up
path_exists(fs, path) == path # None /\ fs[path].exists

(***************************************************************************)
(* The record of the last call.                                            *)
(***************************************************************************)
NoResponse == [exc |-> FALSE, status |-> 0, json |-> FALSE, body |-> EmptyDict]

NoCall ==
    [op       |-> "none",
     service  |-> <<>>,        \* the service argument
     key      |-> None,        \* the api_key / key argument
     flag     |-> FALSE,       \* use_env (resolve) or env (add_key)
     path     |-> None,        \* the keys_file / file_path argument
     mapping  |-> EmptyDict,   \* the keys argument of save_keys
     io       |-> "ok",        \* the I/O step that failed during the call
     ret      |-> None,        \* the value returned
     raised   |-> "",          \* the type of the exception raised, "" if none
     error    |-> <<>>,        \* the message of the exception
     validate |-> FALSE,       \* the validate_keys argument of __init__
     probed   |-> {},          \* services for which requests.get was called
     response |-> NoResponse,  \* what requests.get produced
     read     |-> {},          \* fields of a credential the call looked at
     num      |-> 0,           \* the num argument of a token or budget call
     posted   |-> FALSE,       \* whether requests.post was called
     question |-> "",          \* the question / new_text argument of a Chat call
     clear    |-> FALSE,       \* the clear_history argument of ask_question
     lines    |-> <<>>,        \* the lines of the response_iterator argument
     handled  |-> <<>>]        \* the arguments of the calls of chunk_handler

(***************************************************************************)
(* The fields of an AiService object; `exists` is false while none has     *)
(* been constructed, api_key is None while the attribute is not set.       *)
(***************************************************************************)
INITIAL_TOKEN_BUDGET == 1000000

NoAiService ==
    [exists           |-> FALSE,
     service_supplier |-> <<>>,
     model            |-> "",
     tokens_in        |-> 0,
     tokens_out       |-> 0,
     token_budget     |-> INITIAL_TOKEN_BUDGET,
     hold             |-> FALSE,
     initialized      |-> FALSE,
     base_url         |-> "",
     api_key          |-> None]

(***************************************************************************)
(* The fields of a Chat object.  A message is a record with role and       *)
(* content; the clock of time.time() is the number of the call, and 0      *)
(* stands for the timestamp None of a chat that made no request.           *)
(***************************************************************************)
NoRequestInfo ==
    [time_taken |-> 0, tokens_in |-> 0, tokens_out |-> 0, service |-> <<>>,
     model |-> "", timestamp |-> 0]

NoChat ==
    [exists               |-> FALSE,
     system_message       |-> "",
     conversation_history |-> <<>>,
     last_request_info    |-> NoRequestInfo]

(***************************************************************************)
(* The fields of an OpenAIService object; api is None when the constructor *)
(* found no key, else the APIConnect object with its key.                  *)
(***************************************************************************)
NoApi == [connected |-> FALSE, api_key |-> None]

NoOpenAIService ==
    [exists       |-> FALSE,
     service_name |-> <<>>,
     keys_file    |-> None,
     use_env      |-> FALSE,
     api          |-> NoApi]

(***************************************************************************)
(* KeyManager._load_from_file(file_path, service)                          *)
(***************************************************************************)
\* a lookup that tries the upper-case names before the lower-case suffix
Mut_load_from_file_caps_first(fs, file_path, service) ==
    LET f == fs[file_path]
        keys == f.keys
        service_key == service \o _api_key
        service_caps == str_upper(service)
        service_caps_key == service_caps \o _API_KEY
    IN  IF ~f.exists THEN None
        ELSE IF ~f.json THEN None
        ELSE IF service \in DOMAIN keys THEN keys[service]
        ELSE IF service_caps \in DOMAIN keys THEN keys[service_caps]
        ELSE IF service_caps_key \in DOMAIN keys THEN keys[service_caps_key]
        ELSE IF service_key \in DOMAIN keys THEN keys[service_key]
        ELSE None

_load_from_file(fs, file_path, service) ==
    LET f == fs[file_path]
        keys == f.keys
        service_key == service \o _api_key
        service_caps == str_upper(service)
        service_caps_key == service_caps \o _API_KEY
    IN  IF ~f.exists THEN None              \* FileNotFoundError
        ELSE IF ~f.json THEN None           \* json.JSONDecodeError
        ELSE IF service \in DOMAIN keys THEN keys[service]
        ELSE IF service_key \in DOMAIN keys THEN keys[service_key]
        ELSE IF service_caps \in DOMAIN keys THEN keys[service_caps]
        ELSE IF service_caps_key \in DOMAIN keys THEN keys[service_caps_key]
        ELSE None

\* a message that derives the variable name for every service
Mut_NotFoundMessage_derived(service) ==
    <<"API key for ", service,
      " not found. Please provide it directly, in a keys file, or set the ",
      str_upper(service) \o _API_KEY, " environment variable.">>

\* the message of the ValueError: the two interpolated values in their text
NotFoundMessage(service) ==
    <<"API key for ", service,
      " not found. Please provide it directly, in a keys file, or set the ",
      EnvVarFor(service), " environment variable.">>

Returns(v) == [ret |-> v, raised |-> "", error |-> <<>>]
RaisesValueError(service) ==
    [ret |-> None, raised |-> "ValueError", error |-> NotFoundMessage(service)]

(***************************************************************************)
(* KeyManager._get_api_key_static(service, api_key, keys_file, use_env),   *)
(* packaged as the static KeyManager.get_api_key.                          *)
(***************************************************************************)
\* a resolver that consults the environment before the key files
Mut_get_api_key_static_env_first(fs, e, service, api_key, kf, ue) ==
    LET k2 == IF path_exists(fs, kf) THEN _load_from_file(fs, kf, service) ELSE None
        k3 == IF path_exists(fs, LOCAL_KEYS_FILE)
              THEN _load_from_file(fs, LOCAL_KEYS_FILE, service) ELSE None
        k4 == IF path_exists(fs, DEFAULT_KEYS_FILE)
              THEN _load_from_file(fs, DEFAULT_KEYS_FILE, service) ELSE None
        k5 == IF ue /\ service \in DOMAIN ENV_PREFIXES
              THEN environ_get(e, ENV_PREFIXES[service]) ELSE None
    IN  IF Truthy(api_key) THEN Returns(api_key)
        ELSE IF Truthy(k5) THEN Returns(k5)
        ELSE IF Truthy(k2) THEN Returns(k2)
        ELSE IF Truthy(k3) THEN Returns(k3)
        ELSE IF Truthy(k4) THEN Returns(k4)
        ELSE RaisesValueError(service)

\* a resolver that reads the variable named in the error message for a
\* service without mapped variable
Mut_get_api_key_static_derived_env(fs, e, service, api_key, kf, ue) ==
    LET k2 == IF path_exists(fs, kf) THEN _load_from_file(fs, kf, service) ELSE None
        k3 == IF path_exists(fs, LOCAL_KEYS_FILE)
              THEN _load_from_file(fs, LOCAL_KEYS_FILE, service) ELSE None
        k4 == IF path_exists(fs, DEFAULT_KEYS_FILE)
              THEN _load_from_file(fs, DEFAULT_KEYS_FILE, service) ELSE None
        k5 == IF ue THEN environ_get(e, EnvVarFor(service)) ELSE None
    IN  IF Truthy(api_key) THEN Returns(api_key)
        ELSE IF Truthy(k2) THEN Returns(k2)
        ELSE IF Truthy(k3) THEN Returns(k3)
        ELSE IF Truthy(k4) THEN Returns(k4)
        ELSE IF Truthy(k5) THEN Returns(k5)
        ELSE RaisesValueError(service)

_get_api_key_static(fs, e, service, api_key, kf, ue) ==
    LET k2 == IF path_exists(fs, kf) THEN _load_from_file(fs, kf, service) ELSE None
        k3 == IF path_exists(fs, LOCAL_KEYS_FILE)
              THEN _load_from_file(fs, LOCAL_KEYS_FILE, service) ELSE None
        k4 == IF path_exists(fs, DEFAULT_KEYS_FILE)
              THEN _load_from_file(fs, DEFAULT_KEYS_FILE, service) ELSE None
        k5 == IF ue /\ service \in DOMAIN ENV_PREFIXES
              THEN environ_get(e, ENV_PREFIXES[service]) ELSE None
    IN  IF Truthy(api_key) THEN Returns(api_key)
        ELSE IF Truthy(k2) THEN Returns(k2)
        ELSE IF Truthy(k3) THEN Returns(k3)
        ELSE IF Truthy(k4) THEN Returns(k4)
        ELSE IF Truthy(k5) THEN Returns(k5)
        ELSE RaisesValueError(service)

(***************************************************************************)
(* Inputs of the stateless calls.                                          *)
(***************************************************************************)
ResolveServices == {openai, huggingface, foobar}

\* the four names _load_from_file tries for a service, in order
Variant(service, i) ==
    IF i = 1 THEN service
    ELSE IF i = 2 THEN service \o _api_key
    ELSE IF i = 3 THEN str_upper(service)
    ELSE str_upper(service) \o _API_KEY

VariantValue(i) ==
    IF i = 1 THEN "v1" ELSE IF i = 2 THEN "v2" ELSE IF i = 3 THEN "v3" ELSE "v4"

\* key files holding, under some of the four names of one service, a value
\* that tells the name, or the empty string
VariantDicts(service) ==
    { [n \in {Variant(service, i) : i \in present} |->
          LET i == CHOOSE j \in present : Variant(service, j) = n
          IN  IF i \in empty THEN "" ELSE VariantValue(i)] :
      present \in {P \in SUBSET (1..4) : Cardinality(P) <= MaxFileKeys},
      empty \in SUBSET (1..4) }

ResolveCustomFiles ==
    {Absent, NotJson} \cup
    { JsonFile(d) : d \in UNION { VariantDicts(s) : s \in {openai, foobar} } }

ResolveLocalFiles ==
    {Absent, JsonFile([n \in {openai} |-> "local-key"]),
             JsonFile([n \in {foobar \o _api_key} |-> "local-key"])}

ResolveHomeFiles ==
    {Absent, JsonFile([n \in {OPENAI_API_KEY, foobar} |-> "home-key"])}

ResolveEnvs ==
    { EmptyDict,
      [v \in {OPENAI_API_KEY} |-> "env-key"],
      [v \in {OPENAI_API_KEY} |-> ""],
      [v \in {OPENAI_API_KEY, EnvVarFor(foobar)} |-> "env-key"] }

\* state of the registry before any registry is constructed
NoRegistry ==
    /\ constructed = FALSE
    /\ keys_file = None
    /\ use_env = FALSE
    /\ services_info = EmptyDict
    /\ heap = EmptyDict
    /\ pc = "new"
    /\ todo = {}
    /\ returned = EmptyDict
    /\ has_returned = FALSE
    /\ ai = NoAiService
    /\ chat = NoChat
    /\ openai_service = NoOpenAIService

RegistryVars == <<constructed, keys_file, use_env, services_info, heap, pc, todo,
                  returned, has_returned, ai, chat, openai_service>>

InitResolve ==
    /\ env \in ResolveEnvs
    /\ \E c \in ResolveCustomFiles, l \in ResolveLocalFiles, h \in ResolveHomeFiles :
          files = [p \in Paths |->
                      IF p = CUSTOM_KEYS_FILE THEN c
                      ELSE IF p = LOCAL_KEYS_FILE THEN l
                      ELSE IF p = DEFAULT_KEYS_FILE THEN h
                      ELSE Absent]
    /\ custom_dir = TRUE
    /\ NoRegistry
    /\ nops = 0
    /\ last = NoCall

\* a caller evaluates KeyManager._get_api_key_static(...); the call changes
\* nothing, so one call is applied to each initial state
StaticGetApiKey(service, api_key, kf, ue) ==
    /\ nops = 0
    /\ LET r == _get_api_key_static(files, env, service, api_key, kf, ue)
       IN  last' = [NoCall EXCEPT !.op = "_get_api_key_static", !.service = service,
                       !.key = api_key, !.path = kf, !.flag = ue,
                       !.ret = r.ret, !.raised = r.raised, !.error = r.error]
    /\ nops' = nops + 1
    /\ UNCHANGED <<env, files, custom_dir, RegistryVars>>

\* a caller evaluates KeyManager._load_from_file(file_path, service)
LoadFromFile(file_path, service) ==
    /\ nops = 0
    /\ last' = [NoCall EXCEPT !.op = "_load_from_file", !.service = service,
                   !.path = file_path,
                   !.ret = _load_from_file(files, file_path, service)]
    /\ nops' = nops + 1
    /\ UNCHANGED <<env, files, custom_dir, RegistryVars>>

NextResolve ==
    \/ \E service \in ResolveServices, api_key \in {None, "", "direct-key"},
          kf \in {None, CUSTOM_KEYS_FILE}, ue \in BOOLEAN :
          StaticGetApiKey(service, api_key, kf, ue)
    \/ \E file_path \in {CUSTOM_KEYS_FILE, LOCAL_KEYS_FILE}, service \in ResolveServices :
          LoadFromFile(file_path, service)

SpecResolve == InitResolve /\ [][NextResolve]_vars

(***************************************************************************)
(* KeyManager.save_keys(keys, file_path)                                   *)
(*                                                                         *)
(* An I/O step of the call can fail: io names the step that does, "ok" if  *)
(* none.  Only the directory of the "custom" path can be missing.          *)
(***************************************************************************)
IOFaults == {"ok", "makedirs", "read", "open_w", "dump"}

\* os.path.exists(os.path.dirname(path))
dir_exists(cd, path) == path # CUSTOM_KEYS_FILE \/ cd

\* a merge that forgets the content of the file
Mut_existing_keys_empty(fs, path) == EmptyDict

\* existing_keys = {}; if the file exists: json.load, JSONDecodeError ignored
existing_keys(fs, path) ==
    IF fs[path].exists /\ fs[path].json THEN fs[path].keys ELSE EmptyDict

save_keys(fs, cd, keys, file_path, io) ==
    LET path == IF file_path # None THEN file_path ELSE LOCAL_KEYS_FILE
        mkdir == ~dir_exists(cd, path)
        cd1 == cd \/ mkdir
        merged == DictUpdate(existing_keys(fs, path), keys)
    IN  IF mkdir /\ io = "makedirs"
        THEN [files |-> fs, custom_dir |-> cd, raised |-> "OSError"]
        ELSE IF fs[path].exists /\ io = "read"
        THEN [files |-> fs, custom_dir |-> cd1, raised |-> "OSError"]
        ELSE IF io = "open_w"
        THEN [files |-> fs, custom_dir |-> cd1, raised |-> "OSError"]
        ELSE IF io = "dump"       \* the file was truncated by open(..., 'w')
        THEN [files |-> [fs EXCEPT ![path] = NotJson], custom_dir |-> cd1,
              raised |-> "OSError"]
        ELSE [files |-> [fs EXCEPT ![path] = JsonFile(merged)], custom_dir |-> cd1,
              raised |-> ""]

\* whether the step that io names is executed by a call on this file system
FaultApplies(fs, cd, path, io) ==
    /\ io = "makedirs" => ~dir_exists(cd, path)
    /\ io = "read" => fs[path].exists

SaveKeys(keys, file_path, io) ==
    /\ nops < MaxOps
    /\ FaultApplies(files, custom_dir,
                    IF file_path # None THEN file_path ELSE LOCAL_KEYS_FILE, io)
    /\ LET r == save_keys(files, custom_dir, keys, file_path, io)
       IN  /\ files' = r.files
           /\ custom_dir' = r.custom_dir
           /\ last' = [NoCall EXCEPT !.op = "save_keys", !.mapping = keys,
                          !.path = file_path, !.io = io, !.raised = r.raised]
    /\ nops' = nops + 1
    /\ UNCHANGED <<env, RegistryVars>>

\* key files with at most MaxFileKeys entries, written earlier
SaveInitDicts ==
    { [n \in D |-> "old"] :
      D \in {P \in SUBSET {openai, foobar, _comment, anthropic} :
                 Cardinality(P) <= MaxFileKeys} }

SaveMappings ==
    { EmptyDict,
      [n \in {openai} |-> "k"],
      [n \in {openai} |-> "k2"],
      [n \in {openai, foobar} |-> "k"] }

InitSave ==
    /\ env = EmptyDict
    /\ custom_dir \in BOOLEAN
    /\ \E c \in {Absent, NotJson} \cup {JsonFile(d) : d \in SaveInitDicts},
          l \in {Absent, JsonFile([n \in {openai} |-> "old"])} :
          files = [p \in Paths |->
                      IF p = CUSTOM_KEYS_FILE THEN (IF custom_dir THEN c ELSE Absent)
                      ELSE IF p = LOCAL_KEYS_FILE THEN l
                      ELSE Absent]
    /\ NoRegistry
    /\ nops = 0
    /\ last = NoCall

NextSave ==
    \E keys \in SaveMappings, file_path \in {None, CUSTOM_KEYS_FILE}, io \in IOFaults :
        SaveKeys(keys, file_path, io)

SpecSave == InitSave /\ [][NextSave]_vars

(***************************************************************************)
(* The registry: a KeyManager instance.                                    *)
(*                                                                         *)
(* self.services_info maps a service to a dict with the keys api_key,      *)
(* source, valid and models; models is a reference to a list object of     *)
(* `heap`.  List objects no dict refers to are dropped from the heap.      *)
(***************************************************************************)
NewRef(h) == CHOOSE r \in 1..(Cardinality(DOMAIN h) + 1) : r \notin DOMAIN h

RefsOf(d) == { d[s].models : s \in DOMAIN d }

Collect(h, si, ret) == [r \in (DOMAIN h) \cap (RefsOf(si) \cup RefsOf(ret)) |-> h[r]]

\* a registration that keeps the credential a service already has
Mut_Register_keeps_earlier(si, h, service, key, source) ==
    LET r == NewRef(h)
    IN  IF service \in DOMAIN si THEN [si |-> si, heap |-> h]
        ELSE [si   |-> Put(si, service, [api_key |-> key, source |-> source,
                                         valid |-> None, models |-> r]),
              heap |-> Put(h, r, <<>>)]

\* self.services_info[service] = {"api_key": key, "source": source,
\*                                "valid": None, "models": []}
Register(si, h, service, key, source) ==
    LET r == NewRef(h)
    IN  [si   |-> Put(si, service, [api_key |-> key, source |-> source,
                                    valid |-> None, models |-> r]),
         heap |-> Put(h, r, <<>>)]

(***************************************************************************)
(* What requests.get(...) can produce: an exception, or a response with a  *)
(* status code and a body that is JSON or not.                             *)
(***************************************************************************)
TransportError == [exc |-> TRUE,  status |-> 0,   json |-> FALSE, body |-> EmptyDict]
Unauthorized   == [exc |-> FALSE, status |-> 401, json |-> TRUE,  body |-> EmptyDict]
OkNotJson      == [exc |-> FALSE, status |-> 200, json |-> FALSE, body |-> EmptyDict]
OkOpenAI       == [exc |-> FALSE, status |-> 200, json |-> TRUE,
                   body |-> [data |-> <<[id |-> "gpt-4"], [id |-> "gpt-3.5"]>>]]
OkAnthropic    == [exc |-> FALSE, status |-> 200, json |-> TRUE,
                   body |-> [models |-> <<"claude-3", "claude-2">>]]

\* a 200 whose JSON body is not a listing of the provider's shape: for openai
\* a model without "id", for the others an object without the expected field
OkUnexpected(service) ==
    [exc |-> FALSE, status |-> 200, json |-> TRUE,
     body |-> IF service = openai
              THEN [data |-> <<[id |-> "gpt-4"], [object |-> "model"]>>]
              ELSE [object |-> "list"]]

\* what the endpoint of a service can answer: a failure, a 200 without a
\* listing, or a listing in the shape of that provider
Responses(service) ==
    {TransportError, Unauthorized, OkNotJson, OkUnexpected(service),
     IF service = anthropic THEN OkAnthropic ELSE OkOpenAI}

\* a parse that keeps the identifiers read before a model without "id"
Mut_ParsedModels_partial_listing(service, resp) ==
    IF ~resp.json THEN [assign |-> FALSE, list |-> <<>>]
    ELSE IF service = openai /\ "data" \in DOMAIN resp.body
    THEN [assign |-> TRUE,
          list |-> SelectSeq([i \in 1..Len(resp.body.data) |->
                                 IF "id" \in DOMAIN resp.body.data[i]
                                 THEN resp.body.data[i].id ELSE ""],
                             LAMBDA x : x # "")]
    ELSE IF service = anthropic /\ "models" \in DOMAIN resp.body
    THEN [assign |-> TRUE, list |-> resp.body.models]
    ELSE [assign |-> FALSE, list |-> <<>>]

\* the list the code assigns to info["models"], if it assigns one
\*   openai:    [model["id"] for model in data["data"]]
\*   anthropic: data["models"]
\* response.json() failing, or a model without "id", assigns nothing
ParsedModels(service, resp) ==
    IF ~resp.json THEN [assign |-> FALSE, list |-> <<>>]
    ELSE IF service = openai /\ "data" \in DOMAIN resp.body
    THEN IF \A i \in 1..Len(resp.body.data) : "id" \in DOMAIN resp.body.data[i]
         THEN [assign |-> TRUE,
               list |-> [i \in 1..Len(resp.body.data) |-> resp.body.data[i].id]]
         ELSE [assign |-> FALSE, list |-> <<>>]
    ELSE IF service = anthropic /\ "models" \in DOMAIN resp.body
    THEN [assign |-> TRUE, list |-> resp.body.models]
    ELSE [assign |-> FALSE, list |-> <<>>]

\* a validation that leaves `valid` as it is when requests.get raises
Mut_validate_info_exc_ignored(si, h, service, resp) ==
    IF service \notin BASE_URLS \/ service \notin TEST_ENDPOINTS
    THEN [si |-> [si EXCEPT ![service].valid = None], heap |-> h, probed |-> {}]
    ELSE IF resp.exc
    THEN [si |-> si, heap |-> h, probed |-> {service}]
    ELSE IF resp.status = 200
    THEN LET pm == ParsedModels(service, resp)
             r == NewRef(h)
         IN  IF pm.assign
             THEN [si |-> [si EXCEPT ![service].valid = "True", ![service].models = r],
                   heap |-> Put(h, r, pm.list), probed |-> {service}]
             ELSE [si |-> [si EXCEPT ![service].valid = "True"], heap |-> h,
                   probed |-> {service}]
    ELSE [si |-> [si EXCEPT ![service].valid = "False"], heap |-> h,
          probed |-> {service}]

\* a validation that marks every credential invalid when one probe fails
Mut_validate_info_fails_all(si, h, service, resp) ==
    IF service \notin BASE_URLS \/ service \notin TEST_ENDPOINTS
    THEN [si |-> [si EXCEPT ![service].valid = None], heap |-> h, probed |-> {}]
    ELSE IF resp.exc \/ resp.status # 200
    THEN [si |-> [s \in DOMAIN si |-> [si[s] EXCEPT !.valid = "False"]], heap |-> h,
          probed |-> {service}]
    ELSE LET pm == ParsedModels(service, resp)
             r == NewRef(h)
         IN  IF pm.assign
             THEN [si |-> [si EXCEPT ![service].valid = "True", ![service].models = r],
                   heap |-> Put(h, r, pm.list), probed |-> {service}]
             ELSE [si |-> [si EXCEPT ![service].valid = "True"], heap |-> h,
                   probed |-> {service}]

\* the body of the loop of _validate_keys and of _validate_service_key from
\* its second test on, for a service of services_info
validate_info(si, h, service, resp) ==
    IF service \notin BASE_URLS \/ service \notin TEST_ENDPOINTS
    THEN [si |-> [si EXCEPT ![service].valid = None], heap |-> h, probed |-> {}]
    ELSE IF resp.exc
    THEN [si |-> [si EXCEPT ![service].valid = "False"], heap |-> h,
          probed |-> {service}]
    ELSE IF resp.status = 200
    THEN LET pm == ParsedModels(service, resp)
             r == NewRef(h)
         IN  IF pm.assign
             THEN [si |-> [si EXCEPT ![service].valid = "True", ![service].models = r],
                   heap |-> Put(h, r, pm.list), probed |-> {service}]
             ELSE [si |-> [si EXCEPT ![service].valid = "True"], heap |-> h,
                   probed |-> {service}]
    ELSE [si |-> [si EXCEPT ![service].valid = "False"], heap |-> h,
          probed |-> {service}]

\* a validation that sends the probe for every registered service
Mut_validate_service_key_probes_all(si, h, service, resp) ==
    IF service \notin DOMAIN si
    THEN [si |-> si, heap |-> h, probed |-> {}]
    ELSE IF resp.exc \/ resp.status # 200
    THEN [si |-> [si EXCEPT ![service].valid = "False"], heap |-> h,
          probed |-> {service}]
    ELSE LET pm == ParsedModels(service, resp)
             r == NewRef(h)
         IN  IF pm.assign
             THEN [si |-> [si EXCEPT ![service].valid = "True", ![service].models = r],
                   heap |-> Put(h, r, pm.list), probed |-> {service}]
             ELSE [si |-> [si EXCEPT ![service].valid = "True"], heap |-> h,
                   probed |-> {service}]

\* KeyManager._validate_service_key(service)
_validate_service_key(si, h, service, resp) ==
    IF service \notin DOMAIN si
    THEN [si |-> si, heap |-> h, probed |-> {}]
    ELSE validate_info(si, h, service, resp)

\* whether a call that validates `service` in `si` calls requests.get
Probes(si, service) ==
    service \in DOMAIN si /\ service \in BASE_URLS /\ service \in TEST_ENDPOINTS

(***************************************************************************)
(* KeyManager._load_all_keys()                                             *)
(***************************************************************************)
\* the order of ENV_PREFIXES.items()
WellKnownOrder == <<openai, anthropic, huggingface>>

RECURSIVE LoadEnv(_, _, _)
LoadEnv(st, e, i) ==
    IF i > Len(WellKnownOrder) THEN st
    ELSE LET service == WellKnownOrder[i]
             key == environ_get(e, ENV_PREFIXES[service])
         IN  IF Truthy(key) /\ service \notin DOMAIN st.si
             THEN LoadEnv(Register(st.si, st.heap, service, key, "environment"), e, i + 1)
             ELSE LoadEnv(st, e, i + 1)

\* the loop over keys.items(); its result does not depend on the order
RECURSIVE LoadFile(_, _, _)
LoadFile(st, keys, rest) ==
    IF rest = {} THEN st
    ELSE LET service == CHOOSE x \in rest : TRUE
             key == keys[service]
         IN  IF StartsWithUnderscore(service) \/ service = comment
             THEN LoadFile(st, keys, rest \ {service})
             ELSE IF service \notin DOMAIN st.si /\ Truthy(key)
             THEN LoadFile(Register(st.si, st.heap, service, key, "file"),
                           keys, rest \ {service})
             ELSE LoadFile(st, keys, rest \ {service})

\* a loader that reads the key file before the environment
Mut_load_all_keys_file_first(fs, e, kf, ue) ==
    LET st0 == [si |-> EmptyDict, heap |-> EmptyDict]
        st1 == IF path_exists(fs, kf) /\ fs[kf].json
               THEN LoadFile(st0, fs[kf].keys, DOMAIN fs[kf].keys)
               ELSE st0
    IN  IF ue THEN LoadEnv(st1, e, 1) ELSE st1

_load_all_keys(fs, e, kf, ue) ==
    LET st0 == [si |-> EmptyDict, heap |-> EmptyDict]
        st1 == IF ue THEN LoadEnv(st0, e, 1) ELSE st0
    IN  IF path_exists(fs, kf) /\ fs[kf].json
        THEN LoadFile(st1, fs[kf].keys, DOMAIN fs[kf].keys)
        ELSE st1     \* no file, or json.JSONDecodeError

\* self.keys_file as __init__ sets it
InitKeysFile(fs, kf_arg) ==
    LET kf == IF kf_arg # None THEN kf_arg ELSE LOCAL_KEYS_FILE
    IN  IF kf = LOCAL_KEYS_FILE /\ ~path_exists(fs, kf) /\ path_exists(fs, PARENT_KEYS_FILE)
        THEN PARENT_KEYS_FILE
        ELSE kf

(***************************************************************************)
(* KeyManager.__init__(keys_file, use_env, validate_keys): the loading,    *)
(* then one step per service that _validate_keys visits.                   *)
(***************************************************************************)
Construct(kf_arg, ue_arg, validate_keys) ==
    /\ pc = "new"
    /\ LET kf == InitKeysFile(files, kf_arg)
           st == _load_all_keys(files, env, kf, ue_arg)
       IN  /\ keys_file' = kf
           /\ services_info' = st.si
           /\ heap' = st.heap
           /\ todo' = IF validate_keys THEN DOMAIN st.si ELSE {}
           /\ pc' = IF validate_keys /\ DOMAIN st.si # {} THEN "validating" ELSE "ready"
    /\ use_env' = ue_arg
    /\ constructed' = TRUE
    /\ last' = [NoCall EXCEPT !.op = "__init__", !.path = kf_arg, !.flag = ue_arg,
                   !.validate = validate_keys]
    /\ UNCHANGED <<env, files, custom_dir, returned, has_returned, nops, ai,
                   chat, openai_service>>

\* the next item of self.services_info.items(): the services found in the
\* environment in the order of ENV_PREFIXES, then those of the key file in
\* the order of the file
NextToValidate ==
    LET envs == { s \in todo : services_info[s].source = "environment" }
    IN  IF envs # {}
        THEN { WellKnownOrder[CHOOSE i \in 1..Len(WellKnownOrder) :
                   /\ WellKnownOrder[i] \in envs
                   /\ \A j \in 1..(i-1) : WellKnownOrder[j] \notin envs] }
        ELSE todo

ValidateStep(service, resp) ==
    /\ pc = "validating"
    /\ service \in NextToValidate
    /\ (resp = NoResponse) <=> ~Probes(services_info, service)
    /\ LET r == validate_info(services_info, heap, service, resp)
       IN  /\ services_info' = r.si
           /\ heap' = Collect(r.heap, r.si, returned)
           /\ last' = [NoCall EXCEPT !.op = "_validate_keys", !.service = service,
                          !.probed = r.probed, !.response = resp]
    /\ todo' = todo \ {service}
    /\ pc' = IF todo' = {} THEN "ready" ELSE "validating"
    /\ UNCHANGED <<env, files, custom_dir, constructed, keys_file, use_env,
                   returned, has_returned, nops, ai,
                   chat, openai_service>>

(***************************************************************************)
(* KeyManager.add_key(service, key, env) and update_key(service, key).     *)
(* w is the part of the state a call can change.                           *)
(***************************************************************************)
World == [env |-> env, files |-> files, custom_dir |-> custom_dir,
          si |-> services_info, heap |-> heap]

Result(w, ret, raised, probed) ==
    [w |-> w, ret |-> ret, raised |-> raised, probed |-> probed]

\* an add_key that writes a key file holding the new entry only
Mut_add_key_overwrites_file(w, kf, service, key, to_env, io, resp) ==
    IF ~Truthy(key) THEN Result(w, "False", "", {})
    ELSE IF to_env
    THEN LET reg == Register(w.si, w.heap, service, key, "environment")
             v == _validate_service_key(reg.si, reg.heap, service, resp)
         IN  Result([w EXCEPT !.env = Put(w.env, EnvVarFor(service), key),
                              !.si = v.si, !.heap = v.heap],
                    "True", "", v.probed)
    ELSE LET merged == Put(EmptyDict, service, key)
             mkdir == ~dir_exists(w.custom_dir, kf)
             w1 == [w EXCEPT !.custom_dir = w.custom_dir \/ mkdir]
         IN  IF w.files[kf].exists /\ io = "read"
             THEN Result(w, None, "OSError", {})
             ELSE IF mkdir /\ io = "makedirs"
             THEN Result(w, None, "OSError", {})
             ELSE IF io = "open_w"
             THEN Result(w1, "False", "", {})
             ELSE IF io = "dump"
             THEN Result([w1 EXCEPT !.files[kf] = NotJson], "False", "", {})
             ELSE LET reg == Register(w.si, w.heap, service, key, "file")
                      v == _validate_service_key(reg.si, reg.heap, service, resp)
                  IN  Result([w1 EXCEPT !.files[kf] = JsonFile(merged),
                                        !.si = v.si, !.heap = v.heap],
                             "True", "", v.probed)

add_key(w, kf, service, key, to_env, io, resp) ==
    IF ~Truthy(key) THEN Result(w, "False", "", {})
    ELSE IF to_env
    THEN LET reg == Register(w.si, w.heap, service, key, "environment")
             v == _validate_service_key(reg.si, reg.heap, service, resp)
         IN  Result([w EXCEPT !.env = Put(w.env, EnvVarFor(service), key),
                              !.si = v.si, !.heap = v.heap],
                    "True", "", v.probed)
    ELSE LET existing == IF w.files[kf].exists /\ w.files[kf].json
                         THEN w.files[kf].keys ELSE EmptyDict
             merged == Put(existing, service, key)
             mkdir == ~dir_exists(w.custom_dir, kf)
             w1 == [w EXCEPT !.custom_dir = w.custom_dir \/ mkdir]
         IN  IF w.files[kf].exists /\ io = "read"
             THEN Result(w, None, "OSError", {})     \* open(..., 'r') outside the handler's reach
             ELSE IF mkdir /\ io = "makedirs"
             THEN Result(w, None, "OSError", {})     \* os.makedirs outside the try
             ELSE IF io = "open_w"
             THEN Result(w1, "False", "", {})
             ELSE IF io = "dump"                     \* the file was truncated
             THEN Result([w1 EXCEPT !.files[kf] = NotJson], "False", "", {})
             ELSE LET reg == Register(w.si, w.heap, service, key, "file")
                      v == _validate_service_key(reg.si, reg.heap, service, resp)
                  IN  Result([w1 EXCEPT !.files[kf] = JsonFile(merged),
                                        !.si = v.si, !.heap = v.heap],
                             "True", "", v.probed)

\* an update_key that keeps the models of the key it replaces
Mut_update_key_keeps_models(w, kf, service, key, io, resp) ==
    IF ~Truthy(key) THEN Result(w, "False", "", {})
    ELSE IF service \in DOMAIN w.si /\ w.si[service].source = "environment"
    THEN LET si1 == [w.si EXCEPT ![service].api_key = key, ![service].valid = None]
             v == _validate_service_key(si1, w.heap, service, resp)
         IN  Result([w EXCEPT !.env = Put(w.env, EnvVarFor(service), key),
                              !.si = v.si, !.heap = v.heap],
                    "True", "", v.probed)
    ELSE add_key(w, kf, service, key, FALSE, io, resp)

\* an update_key that stores every key in the key file
Mut_update_key_always_file(w, kf, service, key, io, resp) ==
    IF ~Truthy(key) THEN Result(w, "False", "", {})
    ELSE add_key(w, kf, service, key, FALSE, io, resp)

update_key(w, kf, service, key, io, resp) ==
    IF ~Truthy(key) THEN Result(w, "False", "", {})
    ELSE IF service \in DOMAIN w.si /\ w.si[service].source = "environment"
    THEN LET r == NewRef(w.heap)
             si1 == [w.si EXCEPT ![service].api_key = key, ![service].valid = None,
                                 ![service].models = r]
             v == _validate_service_key(si1, Put(w.heap, r, <<>>), service, resp)
         IN  Result([w EXCEPT !.env = Put(w.env, EnvVarFor(service), key),
                              !.si = v.si, !.heap = v.heap],
                    "True", "", v.probed)
    ELSE add_key(w, kf, service, key, FALSE, io, resp)

\* the call writes the key file
AddWritesFile(key, to_env) == Truthy(key) /\ ~to_env
UpdateWritesFile(si, service, key) ==
    Truthy(key) /\ ~(service \in DOMAIN si /\ si[service].source = "environment")

\* the inputs that a call does not read are fixed: io names a step the call
\* executes, and there is a response exactly when requests.get is called
InputsRead(writes_file, validates, service, io, resp) ==
    /\ io # "ok" => (writes_file /\ FaultApplies(files, custom_dir, keys_file, io))
    /\ (resp # NoResponse) <=>
          (validates /\ io = "ok" /\ service \in BASE_URLS /\ service \in TEST_ENDPOINTS)

Apply(r) ==
    /\ env' = r.w.env
    /\ files' = r.w.files
    /\ custom_dir' = r.w.custom_dir
    /\ services_info' = r.w.si
    /\ heap' = Collect(r.w.heap, r.w.si, returned)
    /\ nops' = nops + 1
    /\ UNCHANGED <<constructed, keys_file, use_env, pc, todo, returned, has_returned,
                   ai, chat, openai_service>>

AddKey(service, key, to_env, io, resp) ==
    /\ pc = "ready"
    /\ nops < MaxOps
    /\ InputsRead(AddWritesFile(key, to_env), Truthy(key), service, io, resp)
    /\ LET r == add_key(World, keys_file, service, key, to_env, io, resp)
       IN  /\ Apply(r)
           /\ last' = [NoCall EXCEPT !.op = "add_key", !.service = service, !.key = key,
                          !.flag = to_env, !.io = io, !.response = resp,
                          !.ret = r.ret, !.raised = r.raised, !.probed = r.probed]

UpdateKey(service, key, io, resp) ==
    /\ pc = "ready"
    /\ nops < MaxOps
    /\ InputsRead(UpdateWritesFile(services_info, service, key), Truthy(key),
                  service, io, resp)
    /\ LET r == update_key(World, keys_file, service, key, io, resp)
       IN  /\ Apply(r)
           /\ last' = [NoCall EXCEPT !.op = "update_key", !.service = service,
                          !.key = key, !.io = io, !.response = resp,
                          !.ret = r.ret, !.raised = r.raised, !.probed = r.probed]

(***************************************************************************)
(* KeyManager.available_services(), and what a caller can do to the dict   *)
(* it returns.                                                             *)
(***************************************************************************)
\* {service: info.copy() for service, info in self.services_info.items()}:
\* dict.copy() is shallow, the copy's "models" is the same list object
available_services(si) == [s \in DOMAIN si |-> si[s]]

\* the call changes nothing in the registry and is not counted in nops
AvailableServices ==
    /\ pc = "ready"
    /\ returned' = available_services(services_info)
    /\ has_returned' = TRUE
    /\ heap' = Collect(heap, services_info, returned')
    /\ last' = [NoCall EXCEPT !.op = "available_services"]
    /\ UNCHANGED <<env, files, custom_dir, constructed, keys_file, use_env,
                   services_info, pc, todo, nops, ai,
                   chat, openai_service>>

CallerStep(op, service) ==
    /\ pc = "ready"
    /\ has_returned
    /\ nops < MaxOps
    /\ nops' = nops + 1
    /\ last' = [NoCall EXCEPT !.op = op, !.service = service]
    /\ UNCHANGED <<env, files, custom_dir, constructed, keys_file, use_env,
                   services_info, pc, todo, has_returned, ai,
                   chat, openai_service>>

\* services[service] = {...}
MutateAddEntry(service) ==
    /\ CallerStep("caller: add entry", service)
    /\ service \notin DOMAIN returned
    /\ LET r == NewRef(heap)
       IN  /\ returned' = Put(returned, service,
                              [api_key |-> "injected", source |-> "direct",
                               valid |-> "True", models |-> r])
           /\ heap' = Collect(Put(heap, r, <<"injected">>), services_info, returned')

\* del services[service]
MutateRemoveEntry(service) ==
    /\ CallerStep("caller: remove entry", service)
    /\ service \in DOMAIN returned
    /\ returned' = [s \in (DOMAIN returned) \ {service} |-> returned[s]]
    /\ heap' = Collect(heap, services_info, returned')

\* services[service][field] = value, value a string or a new list
MutateField(service, field) ==
    /\ CallerStep("caller: overwrite field", service)
    /\ service \in DOMAIN returned
    /\ LET r == NewRef(heap)
       IN  \/ /\ field = "api_key"
              /\ returned' = [returned EXCEPT ![service].api_key = "modified"]
              /\ heap' = Collect(heap, services_info, returned')
           \/ /\ field = "source"
              /\ returned' = [returned EXCEPT ![service].source = "direct"]
              /\ heap' = Collect(heap, services_info, returned')
           \/ /\ field = "valid"
              /\ returned' = [returned EXCEPT ![service].valid =
                                 IF @ = "True" THEN "False" ELSE "True"]
              /\ heap' = Collect(heap, services_info, returned')
           \/ /\ field = "models"
              /\ returned' = [returned EXCEPT ![service].models = r]
              /\ heap' = Collect(Put(heap, r, <<"injected">>), services_info, returned')

\* services[service]["models"].append("injected")
MutateModelsInPlace(service) ==
    /\ CallerStep("caller: append to models", service)
    /\ service \in DOMAIN returned
    /\ returned' = returned
    /\ heap' = [heap EXCEPT ![returned[service].models] = Append(@, "injected")]

(***************************************************************************)
(* KeyManager.get_api_key(service) of a constructed registry.              *)
(***************************************************************************)
\* a lookup that asks the stateless resolver before the registry
Mut_get_api_key_static_first(si, fs, e, kf, ue, service) ==
    LET r == _get_api_key_static(fs, e, service, None, kf, ue)
    IN  IF r.raised = "" THEN r
        ELSE IF service \in DOMAIN si THEN Returns(si[service].api_key)
        ELSE [ret |-> None, raised |-> "ValueError",
              error |-> <<"API key for ", service,
                          " not found. Please provide it directly, in a keys file, or set the ",
                          EnvVarFor(service), " environment variable.">>]

get_api_key(si, fs, e, kf, ue, service) ==
    IF service \in DOMAIN si THEN Returns(si[service].api_key)
    ELSE LET r == _get_api_key_static(fs, e, service, None, kf, ue)
         IN  IF r.raised = "" THEN r
             ELSE \* except ValueError: pass, then the raise of the method itself
                  [ret |-> None, raised |-> "ValueError",
                   error |-> <<"API key for ", service,
                               " not found. Please provide it directly, in a keys file, or set the ",
                               EnvVarFor(service), " environment variable.">>]

\* the call reads the registry, the key files and the environment and changes
\* none of them: what can follow it is what can follow the state it is made
\* in, and the program is taken to end with it
GetApiKey(service) ==
    /\ pc = "ready"
    /\ pc' = "done"
    /\ LET r == get_api_key(services_info, files, env, keys_file, use_env, service)
       IN  last' = [NoCall EXCEPT !.op = "get_api_key", !.service = service,
                       !.ret = r.ret, !.raised = r.raised, !.error = r.error]
    /\ UNCHANGED <<env, files, custom_dir, constructed, keys_file, use_env,
                   services_info, heap, todo, returned, has_returned, nops, ai,
                   chat, openai_service>>

(***************************************************************************)
(* The registry's specification.                                           *)
(***************************************************************************)
RegServices == {openai, anthropic, foobar}

RegEnvs ==
    { EmptyDict,
      [v \in {OPENAI_API_KEY, ANTHROPIC_API_KEY} |-> "env1"] }

RegCustomFiles ==
    { Absent, NotJson,
      JsonFile([n \in {openai} |-> "file1"]),
      JsonFile([n \in {openai, foobar, _comment} |-> "file1"]),
      JsonFile([n \in {anthropic, comment, foobar} |->
                   IF n = foobar THEN "" ELSE "file2"]) }

\* the file systems a registry is constructed on: a custom key file, in a
\* directory that exists or not, or a key file in the working directory or in
\* its parent
RegFileSystems ==
    { [p \in Paths |-> IF p = CUSTOM_KEYS_FILE THEN c ELSE Absent] :
          c \in RegCustomFiles } \cup
    { [p \in Paths |-> IF p = q THEN JsonFile([n \in {openai} |-> "file1"]) ELSE Absent] :
          q \in {LOCAL_KEYS_FILE, PARENT_KEYS_FILE} }

Init ==
    /\ env \in RegEnvs
    /\ files \in RegFileSystems
    /\ custom_dir \in BOOLEAN
    /\ files[CUSTOM_KEYS_FILE].exists => custom_dir
    /\ NoRegistry
    /\ nops = 0
    /\ last = NoCall

Next ==
    \/ \E kf_arg \in {None, CUSTOM_KEYS_FILE}, ue_arg \in BOOLEAN, validate_keys \in BOOLEAN :
          Construct(kf_arg, ue_arg, validate_keys)
    \/ \E service \in RegServices :
          \E resp \in Responses(service) \cup {NoResponse} :
             ValidateStep(service, resp)
    \/ \E service \in {openai, foobar}, key \in {"", "new1"}, to_env \in BOOLEAN,
          io \in IOFaults :
          \E resp \in Responses(service) \cup {NoResponse} :
             AddKey(service, key, to_env, io, resp)
    \/ \E service \in {openai, foobar}, key \in {"", "new1"}, io \in IOFaults :
          \E resp \in Responses(service) \cup {NoResponse} :
             UpdateKey(service, key, io, resp)
    \/ AvailableServices
    \/ \E service \in {openai, foobar} : GetApiKey(service)
    \/ \E service \in RegServices : MutateAddEntry(service)
    \/ \E service \in RegServices : MutateRemoveEntry(service)
    \/ \E service \in RegServices, field \in {"api_key", "source", "valid", "models"} :
          MutateField(service, field)
    \/ \E service \in RegServices : MutateModelsInPlace(service)

Spec == Init /\ [][Next]_vars

(***************************************************************************)
(* The registry with no caller that changes what available_services()      *)
(* returned: construction, add_key and update_key only.                    *)
(***************************************************************************)
NextOps ==
    \/ \E kf_arg \in {None, CUSTOM_KEYS_FILE}, ue_arg \in BOOLEAN, validate_keys \in BOOLEAN :
          Construct(kf_arg, ue_arg, validate_keys)
    \/ \E service \in RegServices :
          \E resp \in Responses(service) \cup {NoResponse} :
             ValidateStep(service, resp)
    \/ \E service \in {openai, foobar}, key \in {"", "new1"}, to_env \in BOOLEAN,
          io \in IOFaults :
          \E resp \in Responses(service) \cup {NoResponse} :
             AddKey(service, key, to_env, io, resp)
    \/ \E service \in {openai, foobar}, key \in {"", "new1"}, io \in IOFaults :
          \E resp \in Responses(service) \cup {NoResponse} :
             UpdateKey(service, key, io, resp)

SpecOps == Init /\ [][NextOps]_vars

(***************************************************************************)
(* AiService(keys, service_supplier, model), keys being a registry.        *)
(***************************************************************************)
Range(seq) == { seq[i] : i \in 1..Len(seq) }

\* AiService._get_base_url()
_get_base_url(service_supplier) ==
    IF service_supplier = openai THEN "https://api.openai.com/v1"
    ELSE IF service_supplier = anthropic THEN "https://api.anthropic.com/v1"
    ELSE ""

\* a validation that looks at the models before it looks at `valid`
Mut_validate_service_and_model_models_first(si, h, fs, e, kf, ue, service_supplier, model) ==
    LET services == available_services(si)
    IN  IF service_supplier \notin DOMAIN services
        THEN [ok |-> FALSE, api_key |-> None, read |-> {}]
        ELSE LET service_info == services[service_supplier]
                 models == h[service_info.models]
                 k == get_api_key(si, fs, e, kf, ue, service_supplier)
             IN  IF models # <<>> /\ model \notin Range(models)
                 THEN [ok |-> FALSE, api_key |-> None, read |-> {"models"}]
                 ELSE IF service_info.valid # "True"
                 THEN [ok |-> FALSE, api_key |-> None, read |-> {"models", "valid"}]
                 ELSE IF k.raised # ""
                 THEN [ok |-> FALSE, api_key |-> None, read |-> {"models", "valid"}]
                 ELSE [ok |-> TRUE, api_key |-> k.ret, read |-> {"models", "valid"}]

\* AiService._validate_service_and_model(): whether it returns True, the
\* api_key it sets, and the fields of the credential it looked at
_validate_service_and_model(si, h, fs, e, kf, ue, service_supplier, model) ==
    LET services == available_services(si)
    IN  IF service_supplier \notin DOMAIN services
        THEN [ok |-> FALSE, api_key |-> None, read |-> {}]
        ELSE LET service_info == services[service_supplier]
             IN  \* `not service_info.get('valid')`: None and False are falsy
                 IF service_info.valid # "True"
                 THEN [ok |-> FALSE, api_key |-> None, read |-> {"valid"}]
                 ELSE LET models == h[service_info.models]
                      IN  IF models # <<>> /\ model \notin Range(models)
                          THEN [ok |-> FALSE, api_key |-> None,
                                read |-> {"valid", "models"}]
                          ELSE LET k == get_api_key(si, fs, e, kf, ue, service_supplier)
                               IN  IF k.raised # ""      \* except ValueError
                                   THEN [ok |-> FALSE, api_key |-> None,
                                         read |-> {"valid", "models"}]
                                   ELSE [ok |-> TRUE, api_key |-> k.ret,
                                         read |-> {"valid", "models"}]

\* AiService.__init__: the constructor changes nothing of the registry
AiServiceInit(service_supplier, model) ==
    /\ pc = "ready"
    /\ pc' = "service"
    /\ LET v == _validate_service_and_model(services_info, heap, files, env, keys_file,
                                            use_env, service_supplier, model)
       IN  /\ ai' = [exists           |-> TRUE,
                     service_supplier |-> service_supplier,
                     model            |-> model,
                     tokens_in        |-> 0,
                     tokens_out       |-> 0,
                     token_budget     |-> INITIAL_TOKEN_BUDGET,
                     hold             |-> FALSE,
                     initialized      |-> v.ok,
                     base_url         |-> _get_base_url(service_supplier),
                     api_key          |-> v.api_key]
           /\ last' = [NoCall EXCEPT !.op = "AiService", !.service = service_supplier,
                          !.read = v.read]
    /\ UNCHANGED <<env, files, custom_dir, constructed, keys_file, use_env,
                   services_info, heap, todo, returned, has_returned, nops,
                   chat, openai_service>>

\* a registry, a caller of available_services() that appends to a models
\* list it was given, and an AiService constructed on the registry
NextService ==
    \/ \E kf_arg \in {None, CUSTOM_KEYS_FILE}, ue_arg \in BOOLEAN, validate_keys \in BOOLEAN :
          Construct(kf_arg, ue_arg, validate_keys)
    \/ \E service \in RegServices :
          \E resp \in Responses(service) \cup {NoResponse} :
             ValidateStep(service, resp)
    \/ \E service \in {openai, foobar}, key \in {"", "new1"}, to_env \in BOOLEAN,
          io \in IOFaults :
          \E resp \in Responses(service) \cup {NoResponse} :
             AddKey(service, key, to_env, io, resp)
    \/ \E service \in {openai, foobar}, key \in {"", "new1"}, io \in IOFaults :
          \E resp \in Responses(service) \cup {NoResponse} :
             UpdateKey(service, key, io, resp)
    \/ AvailableServices
    \/ \E service \in RegServices : MutateModelsInPlace(service)
    \/ \E service_supplier \in {openai, foobar}, model \in {"gpt-4", "injected"} :
          AiServiceInit(service_supplier, model)

SpecService == Init /\ [][NextService]_vars

(***************************************************************************)
(* The token budget of an AiService: add_tokens_in, add_tokens_out,        *)
(* _update_budget, bump_budget, is_available.  `a` is the object.          *)
(***************************************************************************)
TOKEN_BUDGET_BASE == 1000000    \* the literal of _update_budget
DEFAULT_BUMP == 1000000         \* the default of bump_budget's num

Max(x, y) == IF x >= y THEN x ELSE y

_update_budget(a) ==
    LET total_usage == a.tokens_in + a.tokens_out
        budget == Max(0, TOKEN_BUDGET_BASE - total_usage)
    IN  [a EXCEPT !.token_budget = budget,
                  !.hold = IF budget = 0 /\ ~a.hold THEN TRUE ELSE a.hold]

add_tokens_in(a, num) == _update_budget([a EXCEPT !.tokens_in = @ + num])

add_tokens_out(a, num) == _update_budget([a EXCEPT !.tokens_out = @ + num])

bump_budget(a, num) == [a EXCEPT !.token_budget = @ + num, !.hold = FALSE]

\* an availability test that does not look at hold
Mut_is_available_ignores_hold(a) == a.initialized

is_available(a) == a.initialized /\ ~a.hold

(***************************************************************************)
(* AiService.chat_completion(messages, ...).  A message is a record with   *)
(* role and content.  What requests.post can produce: an exception, or a   *)
(* response with a status code and a body that is JSON or not; a body that *)
(* is not JSON makes response.json() raise an exception that is a          *)
(* ValueError, and in recent versions of requests a RequestException too.  *)
(***************************************************************************)
NoPost == [exc |-> FALSE, status |-> 0, json |-> FALSE, json_exc |-> "",
           body |-> EmptyDict]

PostTransportError == [NoPost EXCEPT !.exc = TRUE]
PostUnauthorized   == [NoPost EXCEPT !.status = 401]
PostNotFound       == [NoPost EXCEPT !.status = 404]
PostOkNotJson(t)   == [NoPost EXCEPT !.status = 200, !.json_exc = t]

PostOk(body) == [exc |-> FALSE, status |-> 200, json |-> TRUE, json_exc |-> "",
                 body |-> body]

\* an openai completion with its usage
OpenAIMessageBody ==
    [choices |-> <<[message |-> [role |-> "assistant", content |-> "a1"]]>>,
     usage   |-> [prompt_tokens |-> 400000, completion_tokens |-> 600000]]

\* a completion in the older text format, with a usage without completion_tokens
OpenAITextBody ==
    [choices |-> <<[text |-> "a2"]>>,
     usage   |-> [prompt_tokens |-> 1]]

\* an anthropic message: content blocks, and a usage under other names
AnthropicBody ==
    [content |-> <<[type |-> "text", text |-> "b1"], [type |-> "image"],
                   [type |-> "text", text |-> "b2"]>>,
     usage   |-> [input_tokens |-> 5, output_tokens |-> 7]]

PostResponses(service_supplier) ==
    {PostTransportError, PostUnauthorized, PostNotFound,
     PostOkNotJson("ValueError"), PostOkNotJson("RequestException"),
     PostOk(EmptyDict)} \cup
    (IF service_supplier = anthropic
     THEN {PostOk(AnthropicBody)}
     ELSE {PostOk(OpenAIMessageBody), PostOk(OpenAITextBody)})

OpenAIRoles == {"system", "user", "assistant", "function", "tool"}

\* the usage of a result recorded on the object
RecordUsage(a, result) ==
    IF "usage" \notin DOMAIN result THEN a
    ELSE LET usage == result.usage
             a1 == IF "prompt_tokens" \in DOMAIN usage
                   THEN add_tokens_in(a, usage.prompt_tokens) ELSE a
         IN  IF "completion_tokens" \in DOMAIN usage
             THEN add_tokens_out(a1, usage.completion_tokens) ELSE a1

\* the object after the call, what the call returns or raises, and whether
\* it called requests.post; the model and sampling arguments only go into the
\* request
chat_completion(a, messages, resp) ==
    LET Raise(t, p) == [ai |-> a, ret |-> None, raised |-> t, posted |-> p]
    IN  IF ~is_available(a) THEN Raise("ValueError", FALSE)
        ELSE IF messages = <<>> THEN Raise("ValueError", FALSE)
        ELSE IF /\ a.service_supplier = openai
                /\ \E i \in 1..Len(messages) : messages[i].role \notin OpenAIRoles
        THEN Raise("ValueError", FALSE)
        ELSE IF a.service_supplier \notin {openai, anthropic}
        THEN Raise("ValueError", FALSE)
        ELSE IF resp.exc THEN Raise("Exception", TRUE)     \* RequestException
        ELSE IF resp.status = 404 THEN Raise("ValueError", TRUE)
        ELSE IF resp.status # 200 THEN Raise("Exception", TRUE)   \* raise_for_status
        ELSE IF ~resp.json
        THEN Raise(IF resp.json_exc = "RequestException" THEN "Exception"
                   ELSE "ValueError", TRUE)
        ELSE [ai |-> RecordUsage(a, resp.body), ret |-> resp.body, raised |-> "",
              posted |-> TRUE]

(***************************************************************************)
(* The registry with calls whose file operations all succeed, for service  *)
(* names that include a custom name in upper case: ENV_PREFIXES.get(name,  *)
(* name.upper() + "_API_KEY") gives it the variable of openai.             *)
(***************************************************************************)
OPENAI_UPPER == str_upper(openai)

SourceServices == {openai, OPENAI_UPPER, foobar}

NextSources ==
    \/ \E kf_arg \in {None, CUSTOM_KEYS_FILE}, ue_arg \in BOOLEAN, validate_keys \in BOOLEAN :
          Construct(kf_arg, ue_arg, validate_keys)
    \/ \E service \in RegServices :
          \E resp \in Responses(service) \cup {NoResponse} :
             ValidateStep(service, resp)
    \/ \E service \in SourceServices, key \in {"", "new1"}, to_env \in BOOLEAN :
          \E resp \in Responses(service) \cup {NoResponse} :
             AddKey(service, key, to_env, "ok", resp)
    \/ \E service \in SourceServices, key \in {"", "new1"} :
          \E resp \in Responses(service) \cup {NoResponse} :
             UpdateKey(service, key, "ok", resp)

SpecSources == Init /\ [][NextSources]_vars

(***************************************************************************)
(* A second registry constructed in the same process, that is with the     *)
(* environment and the files the calls on the first one left.  The new     *)
(* object takes the place of the first one, it is constructed without      *)
(* validation, and the program is taken to end with it.                    *)
(***************************************************************************)
ConstructAgain(kf_arg, ue_arg) ==
    /\ pc = "ready"
    /\ pc' = "done"
    /\ LET kf == InitKeysFile(files, kf_arg)
           st == _load_all_keys(files, env, kf, ue_arg)
       IN  /\ keys_file' = kf
           /\ services_info' = st.si
           /\ heap' = st.heap
    /\ use_env' = ue_arg
    /\ last' = [NoCall EXCEPT !.op = "__init__", !.path = kf_arg, !.flag = ue_arg]
    /\ UNCHANGED <<env, files, custom_dir, constructed, todo, returned, has_returned,
                   nops, ai, chat, openai_service>>

NextAgain ==
    \/ \E kf_arg \in {None, CUSTOM_KEYS_FILE}, ue_arg \in BOOLEAN, validate_keys \in BOOLEAN :
          Construct(kf_arg, ue_arg, validate_keys)
    \/ \E service \in RegServices :
          \E resp \in Responses(service) \cup {NoResponse} :
             ValidateStep(service, resp)
    \/ \E service \in {openai, foobar}, key \in {"", "new1"}, to_env \in BOOLEAN :
          \E resp \in Responses(service) \cup {NoResponse} :
             AddKey(service, key, to_env, "ok", resp)
    \/ \E kf_arg \in {None, CUSTOM_KEYS_FILE}, ue_arg \in BOOLEAN :
          ConstructAgain(kf_arg, ue_arg)

SpecAgain == Init /\ [][NextAgain]_vars

(***************************************************************************)
(* An AiService in use.                                                    *)
(***************************************************************************)
KeyManagerVars == <<env, files, custom_dir, constructed, keys_file, use_env,
                    services_info, heap, pc, todo, returned, has_returned>>

\* the objects AiService.__init__ leaves: initialized with the key of a valid
\* credential, or not initialized
ConstructedServices ==
    { [exists           |-> TRUE,
       service_supplier |-> s,
       model            |-> "gpt-4",
       tokens_in        |-> 0,
       tokens_out       |-> 0,
       token_budget     |-> INITIAL_TOKEN_BUDGET,
       hold             |-> FALSE,
       initialized      |-> i,
       base_url         |-> _get_base_url(s),
       api_key          |-> IF i THEN "key1" ELSE None] :
      s \in {openai, anthropic}, i \in BOOLEAN }

\* the registry the object was constructed on is of no concern from here on
ServiceEnvironment ==
    /\ env = EmptyDict
    /\ files = [p \in Paths |-> Absent]
    /\ custom_dir = TRUE
    /\ constructed = TRUE
    /\ keys_file = LOCAL_KEYS_FILE
    /\ use_env = TRUE
    /\ services_info = EmptyDict
    /\ heap = EmptyDict
    /\ pc = "service"
    /\ todo = {}
    /\ returned = EmptyDict
    /\ has_returned = FALSE

InitBudget ==
    /\ ServiceEnvironment
    /\ ai \in ConstructedServices
    /\ chat = NoChat
    /\ openai_service = NoOpenAIService
    /\ nops = 0
    /\ last = NoCall

ServiceCall ==
    /\ pc = "service"
    /\ nops < MaxCalls
    /\ nops' = nops + 1
    /\ UNCHANGED KeyManagerVars
    /\ UNCHANGED openai_service

AddTokensIn(num) ==
    /\ ServiceCall
    /\ ai' = add_tokens_in(ai, num)
    /\ UNCHANGED chat
    /\ last' = [NoCall EXCEPT !.op = "add_tokens_in", !.num = num]

AddTokensOut(num) ==
    /\ ServiceCall
    /\ ai' = add_tokens_out(ai, num)
    /\ UNCHANGED chat
    /\ last' = [NoCall EXCEPT !.op = "add_tokens_out", !.num = num]

BumpBudget(num) ==
    /\ ServiceCall
    /\ ai' = bump_budget(ai, num)
    /\ UNCHANGED chat
    /\ last' = [NoCall EXCEPT !.op = "bump_budget", !.num = num]

\* there is a response exactly when the call reaches requests.post
ChatCompletion(messages, resp) ==
    /\ ServiceCall
    /\ LET r == chat_completion(ai, messages, resp)
       IN  /\ (resp # NoPost) <=> r.posted
           /\ ai' = r.ai
           /\ UNCHANGED chat
           /\ last' = [NoCall EXCEPT !.op = "chat_completion", !.ret = r.ret,
                          !.raised = r.raised, !.posted = r.posted]

TokenAmounts == {1, 400000, 600000}
BumpAmounts == {1, 500000, DEFAULT_BUMP}

UserMessages(role) == <<[role |-> role, content |-> "q1"]>>

NextBudget ==
    \/ \E num \in TokenAmounts : AddTokensIn(num)
    \/ \E num \in TokenAmounts : AddTokensOut(num)
    \/ \E num \in BumpAmounts : BumpBudget(num)
    \/ \E messages \in {<<>>, UserMessages("user"), UserMessages("critic")} :
          \E resp \in PostResponses(ai.service_supplier) \cup {NoPost} :
             ChatCompletion(messages, resp)

SpecBudget == InitBudget /\ [][NextBudget]_vars

(***************************************************************************)
(* Chat: the conversation kept on top of an AiService object.              *)
(***************************************************************************)
MaxQuestions == 3     \* calls made on a Chat object

Message(role, content) == [role |-> role, content |-> content]

\* Chat.__init__(service, system_message)
Chat_init(a, system_message) ==
    [exists               |-> TRUE,
     system_message       |-> system_message,
     conversation_history |-> IF system_message # ""
                              THEN <<Message("system", system_message)>> ELSE <<>>,
     last_request_info    |-> [time_taken |-> 0, tokens_in |-> 0, tokens_out |-> 0,
                               service |-> a.service_supplier, model |-> a.model,
                               timestamp |-> 0]]

\* the history with its last system message
Mut_clear_history_last_system(history) ==
    LET idx == { i \in 1..Len(history) : history[i].role = "system" }
    IN  IF idx = {} THEN <<>>
        ELSE <<history[CHOOSE i \in idx : \A j \in idx : j <= i]>>

\* Chat.clear_history(): the loop stops at the first message of role system
clear_history(history) ==
    LET idx == { i \in 1..Len(history) : history[i].role = "system" }
    IN  IF idx = {} THEN <<>>
        ELSE <<history[CHOOSE i \in idx : \A j \in idx : i <= j]>>

\* Chat.replace_history(new_text)
replace_history(history, new_text) ==
    Append(clear_history(history), Message("user", new_text))

\* "".join of the text of the blocks of type text
RECURSIVE JoinText(_)
JoinText(blocks) ==
    IF blocks = <<>> THEN ""
    ELSE LET block == Head(blocks)
             part == IF "type" \in DOMAIN block /\ block.type = "text"
                     THEN (IF "text" \in DOMAIN block THEN block.text ELSE "")
                     ELSE ""
         IN  part \o JoinText(Tail(blocks))

\* the content _get_service_response takes out of a completion; a message
\* without content makes the subscript raise KeyError.  The content of an
\* anthropic message is a list of blocks in every response of the model.
ExtractContent(service_supplier, response) ==
    LET Content(c) == [content |-> c, raised |-> ""]
    IN  IF service_supplier = openai
        THEN IF "choices" \in DOMAIN response /\ Len(response.choices) > 0
             THEN LET choice == response.choices[1]
                  IN  IF "message" \in DOMAIN choice
                      THEN IF "content" \in DOMAIN choice.message
                           THEN Content(choice.message.content)
                           ELSE [content |-> "", raised |-> "KeyError"]
                      ELSE IF "text" \in DOMAIN choice THEN Content(choice.text)
                      ELSE Content("")
             ELSE Content("")
        ELSE IF service_supplier = anthropic
        THEN IF "content" \in DOMAIN response
             THEN Content(JoinText(response.content))
             ELSE Content("")
        ELSE Content("")     \* chat_completion raises for every other supplier

\* Chat._get_service_response(): the AiService object after the call, the
\* content returned or the exception raised, whether requests.post was called
_get_service_response(a, messages, resp) ==
    IF ~a.exists \/ ~is_available(a)
    THEN [ai |-> a, ret |-> None, raised |-> "ValueError", posted |-> FALSE]
    ELSE LET r == chat_completion(a, messages, resp)
         IN  IF r.raised # "" THEN r
             ELSE LET x == ExtractContent(a.service_supplier, r.ret)
                  IN  [ai |-> r.ai, ret |-> IF x.raised = "" THEN x.content ELSE None,
                       raised |-> x.raised, posted |-> r.posted]

\* an ask_question that keeps only the last exchange
Mut_ask_question_drops_earlier(c, a, question, clear, resp, now) ==
    LET h0 == IF clear THEN clear_history(c.conversation_history)
              ELSE c.conversation_history
        h1 == Append(h0, Message("user", question))
        r  == _get_service_response(a, h1, resp)
    IN  IF r.raised # ""
        THEN [chat |-> [c EXCEPT !.conversation_history = h1], ai |-> r.ai,
              ret |-> None, raised |-> r.raised, posted |-> r.posted]
        ELSE [chat |-> [c EXCEPT
                          !.last_request_info =
                              [time_taken |-> 0,
                               tokens_in  |-> r.ai.tokens_in - a.tokens_in,
                               tokens_out |-> r.ai.tokens_out - a.tokens_out,
                               service    |-> r.ai.service_supplier,
                               model      |-> r.ai.model,
                               timestamp  |-> now],
                          !.conversation_history =
                              <<Message("user", question), Message("assistant", r.ret)>>],
              ai |-> r.ai, ret |-> r.ret, raised |-> "", posted |-> r.posted]

\* Chat.ask_question(question, clear_history=clear) at time now: the question
\* is appended before the service is asked, the request information and the
\* response are recorded only when the service answered
ask_question(c, a, question, clear, resp, now) ==
    LET h0 == IF clear THEN clear_history(c.conversation_history)
              ELSE c.conversation_history
        h1 == Append(h0, Message("user", question))
        r  == _get_service_response(a, h1, resp)
    IN  IF r.raised # ""
        THEN [chat |-> [c EXCEPT !.conversation_history = h1], ai |-> r.ai,
              ret |-> None, raised |-> r.raised, posted |-> r.posted]
        ELSE [chat |-> [c EXCEPT
                          !.last_request_info =
                              [time_taken |-> 0,
                               tokens_in  |-> r.ai.tokens_in - a.tokens_in,
                               tokens_out |-> r.ai.tokens_out - a.tokens_out,
                               service    |-> r.ai.service_supplier,
                               model      |-> r.ai.model,
                               timestamp  |-> now],
                          !.conversation_history =
                              Append(h1, Message("assistant", r.ret))],
              ai |-> r.ai, ret |-> r.ret, raised |-> "", posted |-> r.posted]

\* a completion whose message has no content
OpenAINoContentBody ==
    [choices |-> <<[message |-> [role |-> "assistant"]]>>,
     usage   |-> [prompt_tokens |-> 1, completion_tokens |-> 1]]

ChatResponses(service_supplier) ==
    PostResponses(service_supplier) \cup
    (IF service_supplier = openai THEN {PostOk(OpenAINoContentBody)} ELSE {})

\* histories a chat file can hold: a system message that is not the first
\* message, two system messages, none, and a role that openai refuses
LoadedHistories ==
    { <<Message("user", "q0"), Message("system", "s1"), Message("assistant", "a0")>>,
      <<Message("system", "s1"), Message("user", "q0"), Message("system", "s2")>>,
      <<Message("user", "q0"), Message("assistant", "a0")>>,
      <<Message("critic", "c0")>> }

InitChat ==
    /\ ServiceEnvironment
    /\ ai \in ConstructedServices
    /\ \E system_message \in {"", "sys"} : chat = Chat_init(ai, system_message)
    /\ openai_service = NoOpenAIService
    /\ nops = 0
    /\ last = NoCall

ChatCall ==
    /\ pc = "service"
    /\ chat.exists
    /\ nops < MaxQuestions
    /\ nops' = nops + 1
    /\ UNCHANGED KeyManagerVars
    /\ UNCHANGED openai_service

\* there is a response exactly when the call reaches requests.post
AskQuestion(question, clear, resp) ==
    /\ ChatCall
    /\ LET r == ask_question(chat, ai, question, clear, resp, nops + 1)
       IN  /\ (resp # NoPost) <=> r.posted
           /\ chat' = r.chat
           /\ ai' = r.ai
           /\ last' = [NoCall EXCEPT !.op = "ask_question", !.question = question,
                          !.clear = clear, !.ret = r.ret, !.raised = r.raised,
                          !.posted = r.posted]

ClearHistory ==
    /\ ChatCall
    /\ chat' = [chat EXCEPT !.conversation_history = clear_history(@)]
    /\ last' = [NoCall EXCEPT !.op = "clear_history"]
    /\ UNCHANGED ai

ReplaceHistory(new_text) ==
    /\ ChatCall
    /\ chat' = [chat EXCEPT !.conversation_history = replace_history(@, new_text)]
    /\ last' = [NoCall EXCEPT !.op = "replace_history", !.question = new_text]
    /\ UNCHANGED ai

\* Chat.load_chat(file_path) of a file that holds a conversation history only
LoadChat(history) ==
    /\ ChatCall
    /\ chat' = [chat EXCEPT !.conversation_history = history]
    /\ last' = [NoCall EXCEPT !.op = "load_chat"]
    /\ UNCHANGED ai

NextChat ==
    \/ \E question \in {"q1", "q2"}, clear \in BOOLEAN :
          \E resp \in ChatResponses(ai.service_supplier) \cup {NoPost} :
             AskQuestion(question, clear, resp)
    \/ ClearHistory
    \/ \E new_text \in {"summary"} : ReplaceHistory(new_text)
    \/ \E history \in LoadedHistories : LoadChat(history)

SpecChat == InitChat /\ [][NextChat]_vars

(***************************************************************************)
(* StreamProcessor.process_openai_stream(response_iterator, chunk_handler). *)
(* A line is a tuple of bytes; the text of a payload (a JSON document, the  *)
(* end mark, or text that is not JSON) is one element of the tuple, and     *)
(* json.loads is the table of the documents.                                *)
(***************************************************************************)
MaxLines == 3         \* lines of a streamed response

DATA_PREFIX == <<"d", "a", "t", "a", ":", " ">>
DONE_MARK == <<"[DONE]">>
Whitespace == {" ", "\n", "\r", "\t"}

RECURSIVE lstrip(_)
lstrip(b) == IF b # <<>> /\ Head(b) \in Whitespace THEN lstrip(Tail(b)) ELSE b

RECURSIVE rstrip(_)
rstrip(b) ==
    IF b # <<>> /\ b[Len(b)] \in Whitespace THEN rstrip(SubSeq(b, 1, Len(b) - 1)) ELSE b

\* bytes.strip()
strip(b) == rstrip(lstrip(b))

\* bytes.startswith(prefix)
startswith(b, prefix) == Len(b) >= Len(prefix) /\ SubSeq(b, 1, Len(prefix)) = prefix

\* the documents of the model: deltas with content, a delta with the empty
\* content, chunks with no choice, without delta, with a delta without
\* content, with the content null, and with two choices
JsonDocuments ==
    [t \in {"{He}", "{llo}", "{empty}", "{nochoice}", "{nodelta}", "{role}",
            "{null}", "{two}"} |->
        CASE t = "{He}"       -> [choices |-> <<[delta |-> [content |-> "He"]]>>]
          [] t = "{llo}"      -> [choices |-> <<[delta |-> [content |-> "llo"]]>>]
          [] t = "{empty}"    -> [choices |-> <<[delta |-> [content |-> ""]]>>]
          [] t = "{nochoice}" -> [choices |-> <<>>]
          [] t = "{nodelta}"  -> [choices |-> <<[index |-> 0]>>]
          [] t = "{role}"     -> [choices |-> <<[delta |-> [role |-> "assistant"]]>>]
          [] t = "{null}"     -> [choices |-> <<[delta |-> [content |-> None]]>>]
          [] t = "{two}"      -> [choices |-> <<[delta |-> [content |-> "A"]],
                                                [delta |-> [content |-> "B"]]>>]]

\* json.loads(data): white space around the document is accepted, anything
\* that is not one document raises
json_loads(data) ==
    LET t == strip(data)
    IN  IF Len(t) = 1 /\ t[1] \in DOMAIN JsonDocuments
        THEN [raised |-> FALSE, value |-> JsonDocuments[t[1]]]
        ELSE [raised |-> TRUE, value |-> EmptyDict]

\* the content one payload adds, if any: the body of the try block up to
\* `full_content += content`, which raises TypeError for a content null
DeltaContent(data) ==
    LET parsed == json_loads(data)
        Nothing == [adds |-> FALSE, content |-> ""]
    IN  IF parsed.raised THEN Nothing
        ELSE LET chunk == parsed.value
             IN  IF "choices" \in DOMAIN chunk /\ Len(chunk.choices) > 0
                 THEN LET delta == IF "delta" \in DOMAIN chunk.choices[1]
                                   THEN chunk.choices[1].delta ELSE EmptyDict
                      IN  IF "content" \in DOMAIN delta /\ delta.content # None
                          THEN [adds |-> TRUE, content |-> delta.content]
                          ELSE Nothing
                 ELSE Nothing

\* a loop that goes on behind the end mark
RECURSIVE Mut_process_openai_stream_no_break(_, _, _, _)
Mut_process_openai_stream_no_break(lines, chunk_handler, full_content, handled) ==
    IF lines = <<>> THEN [ret |-> full_content, handled |-> handled]
    ELSE LET line == Head(lines)
             rest == Tail(lines)
         IN  IF strip(line) = <<>>
             THEN Mut_process_openai_stream_no_break(rest, chunk_handler, full_content, handled)
             ELSE IF startswith(line, DATA_PREFIX)
             THEN LET data == SubSeq(line, 7, Len(line))
                      d == DeltaContent(data)
                  IN  IF d.adds
                      THEN Mut_process_openai_stream_no_break(rest, chunk_handler,
                               full_content \o d.content,
                               IF chunk_handler # "none"
                               THEN Append(handled, d.content) ELSE handled)
                      ELSE Mut_process_openai_stream_no_break(rest, chunk_handler,
                               full_content, handled)
             ELSE Mut_process_openai_stream_no_break(rest, chunk_handler, full_content, handled)

\* the loop over the lines that are left, with the content and the handler
\* calls so far; chunk_handler is "none" (not given) or "collects"
RECURSIVE process_openai_stream(_, _, _, _)
process_openai_stream(lines, chunk_handler, full_content, handled) ==
    IF lines = <<>> THEN [ret |-> full_content, handled |-> handled]
    ELSE LET line == Head(lines)
             rest == Tail(lines)
         IN  IF strip(line) = <<>>
             THEN process_openai_stream(rest, chunk_handler, full_content, handled)
             ELSE IF startswith(line, DATA_PREFIX)
             THEN LET data == SubSeq(line, 7, Len(line))
                      d == DeltaContent(data)
                  IN  IF strip(data) = DONE_MARK
                      THEN [ret |-> full_content, handled |-> handled]     \* break
                      ELSE IF d.adds
                      THEN process_openai_stream(rest, chunk_handler,
                               full_content \o d.content,
                               IF chunk_handler # "none"
                               THEN Append(handled, d.content) ELSE handled)
                      ELSE process_openai_stream(rest, chunk_handler, full_content, handled)
             ELSE process_openai_stream(rest, chunk_handler, full_content, handled)

\* the lines of the model: blank lines, lines that do not start with the
\* prefix, the prefix with no payload, the end mark, a payload that is not
\* JSON, and the documents, with and without line end
StreamLines ==
    { <<>>, <<" ", "\r", "\n">>,
      <<"x">>, DONE_MARK, <<"d", "a", "t", "a", ":", "{He}">>,
      DATA_PREFIX \o <<"\n">>,
      DATA_PREFIX \o <<" ">> \o DONE_MARK \o <<"\n">>,
      DATA_PREFIX \o <<"garbage">> } \cup
    { DATA_PREFIX \o <<t>> : t \in DOMAIN JsonDocuments \ {"{llo}"} } \cup
    { DATA_PREFIX \o <<" ", "{llo}", "\n">> }

RECURSIVE Tuples(_, _)
Tuples(S, n) ==
    IF n = 0 THEN {<<>>}
    ELSE LET shorter == Tuples(S, n - 1)
         IN  shorter \cup { Append(t, x) : t \in { u \in shorter : Len(u) = n - 1 }, x \in S }

InitStream ==
    /\ ServiceEnvironment
    /\ ai = NoAiService
    /\ chat = NoChat
    /\ openai_service = NoOpenAIService
    /\ nops = 0
    /\ last = NoCall

ProcessOpenAIStream(lines, chunk_handler) ==
    /\ pc = "service"
    /\ nops = 0
    /\ nops' = 1
    /\ LET r == process_openai_stream(lines, chunk_handler, "", <<>>)
       IN  last' = [NoCall EXCEPT !.op = "process_openai_stream", !.lines = lines,
                       !.key = chunk_handler, !.ret = r.ret, !.handled = r.handled]
    /\ UNCHANGED <<KeyManagerVars, ai, chat, openai_service>>

NextStream ==
    /\ nops = 0
    /\ \E lines \in Tuples(StreamLines, MaxLines), chunk_handler \in {"none", "collects"} :
          ProcessOpenAIStream(lines, chunk_handler)

SpecStream == InitStream /\ [][NextStream]_vars

(***************************************************************************)
(* OpenAIService: __init__, get_services and set_service.  The packaged    *)
(* KeyManager.get_api_key it calls is the stateless resolver.              *)
(***************************************************************************)
\* OpenAIService.__init__(service_name, api_key, keys_file=kf_arg, use_env=ue)
OpenAIService_init(fs, e, service_name, api_key, kf_arg, ue) ==
    LET name == IF service_name # None THEN service_name ELSE openai
        kf == IF kf_arg # None THEN kf_arg
              ELSE IF path_exists(fs, LOCAL_KEYS_FILE) THEN LOCAL_KEYS_FILE
              ELSE IF path_exists(fs, PARENT_KEYS_FILE) THEN PARENT_KEYS_FILE
              ELSE None
        r == _get_api_key_static(fs, e, name, api_key, kf, ue)
    IN  [exists       |-> TRUE,
         service_name |-> name,
         keys_file    |-> kf,
         use_env      |-> ue,
         api          |-> IF r.raised = "" THEN [connected |-> TRUE, api_key |-> r.ret]
                          ELSE NoApi]      \* except ValueError: self.api = None

\* OpenAIService.get_services(): the names in the keys file
get_services(fs, kf) ==
    IF path_exists(fs, kf) /\ fs[kf].json THEN DOMAIN fs[kf].keys ELSE {}

\* OpenAIService.set_service(service): the object after the call and the
\* value returned
set_service(o, fs, e, service) ==
    IF ~path_exists(fs, o.keys_file) THEN [o |-> o, ret |-> "False"]
    ELSE IF service \notin get_services(fs, o.keys_file) THEN [o |-> o, ret |-> "False"]
    ELSE LET o1 == [o EXCEPT !.service_name = service]
             r == _get_api_key_static(fs, e, service, None, o.keys_file, o.use_env)
         IN  IF r.raised # "" THEN [o |-> o1, ret |-> "False"]   \* except ValueError
             ELSE [o |-> [o1 EXCEPT !.api = [connected |-> TRUE, api_key |-> r.ret]],
                   ret |-> "True"]

\* key files with a key for every name, and with a name that has no key
OpenAIKeyFiles ==
    {Absent, NotJson,
     JsonFile([n \in {openai, anthropic} |-> IF n = openai THEN "file1" ELSE "file2"]),
     JsonFile([n \in {openai, foobar} |-> IF n = openai THEN "file1" ELSE ""])}

InitOpenAI ==
    /\ env \in RegEnvs
    /\ \E c \in OpenAIKeyFiles, l \in {Absent, JsonFile([n \in {openai} |-> "local1"])} :
          files = [p \in Paths |-> IF p = CUSTOM_KEYS_FILE THEN c
                                   ELSE IF p = LOCAL_KEYS_FILE THEN l ELSE Absent]
    /\ custom_dir = TRUE
    /\ NoRegistry
    /\ nops = 0
    /\ last = NoCall

OpenAIServiceInit(service_name, api_key, kf_arg, ue) ==
    /\ ~openai_service.exists
    /\ openai_service' = OpenAIService_init(files, env, service_name, api_key, kf_arg, ue)
    /\ last' = [NoCall EXCEPT !.op = "OpenAIService", !.service = service_name,
                   !.key = api_key, !.path = kf_arg, !.flag = ue]
    /\ UNCHANGED <<KeyManagerVars, nops, ai, chat>>

SetService(service) ==
    /\ openai_service.exists
    /\ nops < MaxCalls
    /\ nops' = nops + 1
    /\ LET r == set_service(openai_service, files, env, service)
       IN  /\ openai_service' = r.o
           /\ last' = [NoCall EXCEPT !.op = "set_service", !.service = service,
                          !.ret = r.ret]
    /\ UNCHANGED <<KeyManagerVars, ai, chat>>

NextOpenAI ==
    \/ \E service_name \in {None, openai, foobar}, api_key \in {None, "direct"},
          kf_arg \in {None, CUSTOM_KEYS_FILE}, ue \in BOOLEAN :
          OpenAIServiceInit(service_name, api_key, kf_arg, ue)
    \/ \E service \in {openai, anthropic, foobar} : SetService(service)

SpecOpenAI == InitOpenAI /\ [][NextOpenAI]_vars

(***************************************************************************)
(* Properties of the stateless resolver (checked under SpecResolve).       *)
(***************************************************************************)
\* what each source holds for the service of the last call, in priority order:
\* the explicit key, the given key file, the local key file, the key file of
\* the home directory, the mapped environment variable
FileEntry(path, service) ==
    IF path = None \/ ~files[path].exists \/ ~files[path].json THEN None
    ELSE IF \E i \in 1..4 : Variant(service, i) \in DOMAIN files[path].keys
    THEN files[path].keys[Variant(service,
             CHOOSE i \in 1..4 : /\ Variant(service, i) \in DOMAIN files[path].keys
                                 /\ \A j \in 1..(i-1) :
                                        Variant(service, j) \notin DOMAIN files[path].keys)]
    ELSE None

SourcesOfLast ==
    <<last.key,
      FileEntry(last.path, last.service),
      FileEntry(LOCAL_KEYS_FILE, last.service),
      FileEntry(DEFAULT_KEYS_FILE, last.service),
      IF last.flag /\ last.service \in {openai, anthropic, huggingface}
      THEN environ_get(env, ENV_PREFIXES[last.service]) ELSE None>>

\* C1: the stateless resolve returns the key of the highest-priority source
\* that holds a non-empty key for the service (explicit, then the given key
\* file, then the other key files, then the mapped environment variable when
\* environment checking is enabled); a lower-priority source is never returned
\* while a higher-priority one holds a non-empty key.
C1_PriorityOrdering ==
    last.op = "_get_api_key_static" =>
        \A i \in 1..5 :
            ( /\ Truthy(SourcesOfLast[i])
              /\ \A j \in 1..(i-1) : ~Truthy(SourcesOfLast[j]) )
            => (last.raised = "" /\ last.ret = SourcesOfLast[i])

\* the given key file and the environment both hold a key, no explicit key is
\* passed, and the file's key is returned
C1_Witness ==
    /\ last.op = "_get_api_key_static"
    /\ ~Truthy(last.key)
    /\ Truthy(SourcesOfLast[2])
    /\ Truthy(SourcesOfLast[5])
    /\ SourcesOfLast[2] # SourcesOfLast[5]
    /\ last.ret = SourcesOfLast[2]

FOOBAR_API_KEY == <<"F","O","O","B","A","R","_","A","P","I","_","K","E","Y">>

\* C8: when no source yields a key the stateless resolve raises ValueError and
\* the message names the service and the environment variable that would
\* satisfy it: the mapped variable for a well-known service, the upper-cased
\* service name plus "_API_KEY" for any other service.
C8_NotFoundNamesVariable ==
    ( /\ last.op = "_get_api_key_static"
      /\ \A i \in 1..5 : ~Truthy(SourcesOfLast[i]) )
    => /\ last.raised = "ValueError"
       /\ Len(last.error) = 5
       /\ last.error[2] = last.service
       /\ last.service = openai => last.error[4] = OPENAI_API_KEY
       /\ last.service = huggingface => last.error[4] = HF_API_KEY
       /\ last.service = foobar => last.error[4] = FOOBAR_API_KEY

\* a resolve of foobar, with environment checking disabled, has failed
C8_Witness ==
    /\ last.op = "_get_api_key_static"
    /\ last.service = foobar
    /\ ~last.flag
    /\ last.raised = "ValueError"
    /\ last.error[4] = FOOBAR_API_KEY

\* C9: a lookup in a key file returns the value stored under the first of the
\* names service, service_api_key, SERVICE, SERVICE_API_KEY that is present in
\* the file; the value of a later name is never returned.
C9_FirstVariantWins ==
    ( /\ last.op = "_load_from_file"
      /\ files[last.path].json )
    => \A i \in 1..4 :
          ( /\ Variant(last.service, i) \in DOMAIN files[last.path].keys
            /\ \A j \in 1..(i-1) :
                  Variant(last.service, j) \notin DOMAIN files[last.path].keys )
          => last.ret = files[last.path].keys[Variant(last.service, i)]

\* the file holds openai_api_key and OPENAI_API_KEY but not openai, and the
\* lookup returned the value of openai_api_key
C9_Witness ==
    /\ last.op = "_load_from_file"
    /\ last.service = openai
    /\ files[last.path].json
    /\ openai \notin DOMAIN files[last.path].keys
    /\ (openai \o _api_key) \in DOMAIN files[last.path].keys
    /\ OPENAI_API_KEY \in DOMAIN files[last.path].keys
    /\ last.ret = "v2"

(***************************************************************************)
(* Properties of save_keys (checked under SpecSave).                       *)
(***************************************************************************)
SavedPath == IF last'.path # None THEN last'.path ELSE LOCAL_KEYS_FILE

KeysBefore ==
    IF files[SavedPath].exists /\ files[SavedPath].json
    THEN files[SavedPath].keys ELSE EmptyDict

\* C10: a save_keys call that completes leaves at the path a JSON object in
\* which every key of the mapping has the mapping's value and every other key
\* the file held before keeps its value; the same call applied a second time
\* leaves the file system as it is.
C10_SaveKeysMerges ==
    [][ (last'.op = "save_keys" /\ last'.raised = "" /\ nops' = nops + 1) =>
          /\ files'[SavedPath].exists
          /\ files'[SavedPath].json
          /\ \A k \in DOMAIN last'.mapping :
                /\ k \in DOMAIN files'[SavedPath].keys
                /\ files'[SavedPath].keys[k] = last'.mapping[k]
          /\ \A k \in (DOMAIN KeysBefore) \ (DOMAIN last'.mapping) :
                /\ k \in DOMAIN files'[SavedPath].keys
                /\ files'[SavedPath].keys[k] = KeysBefore[k]
          /\ save_keys(files', custom_dir', last'.mapping, last'.path, "ok").files = files'
      ]_vars

\* a save of a new value for openai has completed on a file that also holds
\* another service's key, which is still there
C10_Witness ==
    /\ last.op = "save_keys"
    /\ last.raised = ""
    /\ last.path = CUSTOM_KEYS_FILE
    /\ openai \in DOMAIN last.mapping
    /\ files[CUSTOM_KEYS_FILE].json
    /\ anthropic \in DOMAIN files[CUSTOM_KEYS_FILE].keys
    /\ files[CUSTOM_KEYS_FILE].keys[anthropic] = "old"
    /\ files[CUSTOM_KEYS_FILE].keys[openai] = last.mapping[openai]

(***************************************************************************)
(* Properties of the registry (checked under Spec).                        *)
(***************************************************************************)
\* the registry as a reader sees it: every models reference replaced by the
\* content of its list
ViewOf(si, h) ==
    [s \in DOMAIN si |-> [api_key |-> si[s].api_key, source |-> si[s].source,
                          valid |-> si[s].valid, models |-> h[si[s].models]]]

RegistryView == ViewOf(services_info, heap)

\* C2: after a construction with environment checking enabled, a well-known
\* service with a non-empty key both in its environment variable and in the
\* key file is registered with source=environment and the environment's value.
C2_EnvironmentWinsOverFile ==
    (last.op = "__init__" /\ last.flag) =>
        \A s \in {openai, anthropic, huggingface} :
            ( /\ ENV_PREFIXES[s] \in DOMAIN env
              /\ env[ENV_PREFIXES[s]] # ""
              /\ files[keys_file].json
              /\ s \in DOMAIN files[keys_file].keys
              /\ files[keys_file].keys[s] # "" )
            => /\ s \in DOMAIN services_info
               /\ services_info[s].source = "environment"
               /\ services_info[s].api_key = env[ENV_PREFIXES[s]]

\* OPENAI_API_KEY=env1 and a key file {"openai": "file1"}: openai is registered
\* from the environment
C2_Witness ==
    /\ last.op = "__init__"
    /\ last.flag
    /\ environ_get(env, OPENAI_API_KEY) = "env1"
    /\ files[keys_file].json
    /\ openai \in DOMAIN files[keys_file].keys
    /\ files[keys_file].keys[openai] = "file1"
    /\ openai \in DOMAIN services_info
    /\ services_info[openai].source = "environment"
    /\ services_info[openai].api_key = "env1"

CallerOps == {"caller: add entry", "caller: remove entry",
              "caller: overwrite field", "caller: append to models"}

\* C3: no mutation of the structure returned by available_services() changes
\* the registry: not adding or removing an entry, not overwriting a field of
\* an entry, not modifying an entry's models list in place.
C3_DefensiveCopy ==
    [][ (last'.op \in CallerOps /\ nops' = nops + 1) =>
            ViewOf(services_info', heap') = RegistryView ]_vars

\* C4: add_key(service, key, env=False) with a non-empty key answers every
\* I/O failure while persisting (creating the directory, reading the file for
\* the merge, writing the merged file) by returning False, not by raising,
\* and leaves the registry as it was.
C4_PersistFailureReturnsFalse ==
    [][ ( /\ last'.op = "add_key"
          /\ nops' = nops + 1
          /\ ~last'.flag
          /\ last'.key \notin {None, ""}
          /\ last'.io # "ok" )
        => /\ last'.raised = ""
           /\ last'.ret = "False"
           /\ ViewOf(services_info', heap') = RegistryView ]_vars

\* C5: add_key and update_key with an empty key return False and change
\* neither the registry nor the environment nor the key files, and call
\* requests.get for no service.
C5_EmptyKeyRejected ==
    [][ ( /\ last'.op \in {"add_key", "update_key"}
          /\ nops' = nops + 1
          /\ last'.key = "" )
        => /\ last'.ret = "False"
           /\ last'.raised = ""
           /\ last'.probed = {}
           /\ ViewOf(services_info', heap') = RegistryView
           /\ env' = env
           /\ files' = files
           /\ custom_dir' = custom_dir ]_vars

\* add_key with an empty key was refused on a registry that holds openai
C5_Witness ==
    /\ last.op = "add_key"
    /\ last.key = ""
    /\ last.service = openai
    /\ last.ret = "False"
    /\ openai \in DOMAIN services_info

\* C6: a call that probes a service completes normally whatever requests.get
\* produces (add_key and update_key return True, the construction goes on),
\* and a status other than 200 or an exception leaves the probed credential
\* with valid=False.
C6_ValidationNeverRaises ==
    last.probed # {} =>
        /\ last.raised = ""
        /\ last.op \in {"add_key", "update_key"} => last.ret = "True"
        /\ last.op = "_validate_keys" => pc \in {"validating", "ready"}
        /\ \A s \in last.probed :
              (last.response.exc \/ last.response.status # 200)
              => (s \in DOMAIN services_info /\ services_info[s].valid = "False")

\* update_key of openai met a transport error: it returned True and openai
\* is invalid
C6_Witness ==
    /\ last.op = "update_key"
    /\ last.service = openai
    /\ last.response.exc
    /\ last.probed = {openai}
    /\ last.ret = "True"
    /\ services_info[openai].valid = "False"

\* C7: a step that validates one service (an iteration of _validate_keys, or
\* add_key / update_key of that service) leaves the api_key, source, valid and
\* models of every other registered service as they were.
C7_ValidationIsolation ==
    [][ last'.op \in {"_validate_keys", "add_key", "update_key"}
        => \A s \in (DOMAIN services_info) \ {last'.service} :
              /\ s \in DOMAIN services_info'
              /\ ViewOf(services_info', heap')[s] = RegistryView[s] ]_vars

\* the probe of anthropic failed with a transport error during construction
\* and openai, validated before it, is still valid with its models
C7_Witness ==
    /\ last.op = "_validate_keys"
    /\ last.service = anthropic
    /\ last.response.exc
    /\ services_info[anthropic].valid = "False"
    /\ openai \in DOMAIN services_info
    /\ services_info[openai].valid = "True"
    /\ heap[services_info[openai].models] = <<"gpt-4", "gpt-3.5">>

(***************************************************************************)
(* The stateless resolver and the services without mapped variable         *)
(* (checked under SpecResolve).                                            *)
(***************************************************************************)
\* C19: for a service that is not openai, anthropic or huggingface the
\* stateless resolve never returns a value of the environment: what it
\* returns is the explicit key or the entry of a key file, and when there is
\* no explicit key and no key file holds a non-empty entry for the service it
\* raises the ValueError, whatever the environment holds and whether or not
\* environment checking is enabled.
C19_UnknownServiceNotFromEnvironment ==
    (/\ last.op = "_get_api_key_static"
     /\ last.service \notin {openai, anthropic, huggingface}) =>
        LET entries == { FileEntry(last.path, last.service),
                         FileEntry(LOCAL_KEYS_FILE, last.service),
                         FileEntry(DEFAULT_KEYS_FILE, last.service) }
        IN  /\ last.raised = "" => last.ret \in {last.key} \cup entries
            /\ (last.key \in {None, ""} /\ entries \subseteq {None, ""})
                  => (last.raised = "ValueError" /\ last.ret = None)

\* the variable named in the error message is set, environment checking is
\* enabled, and the resolve fails
C19_Witness ==
    /\ last.op = "_get_api_key_static"
    /\ last.service = foobar
    /\ last.key = None
    /\ last.flag
    /\ FOOBAR_API_KEY \in DOMAIN env
    /\ env[FOOBAR_API_KEY] = "env-key"
    /\ last.raised = "ValueError"
    /\ last.error[4] = FOOBAR_API_KEY

(***************************************************************************)
(* Properties of the registry's operations (checked under Spec).           *)
(***************************************************************************)
\* C11: get_api_key(service) of a registry returns the api_key of the
\* registered credential when the service is in the registry; when it is not,
\* it returns or raises exactly what the stateless resolver returns or raises
\* for the service, no explicit key, the registry's key file and its use_env
\* flag (the ValueError and its message included).
C11_GetApiKeyRegistryThenResolve ==
    last.op = "get_api_key" =>
        IF last.service \in DOMAIN services_info
        THEN /\ last.raised = ""
             /\ last.ret = services_info[last.service].api_key
        ELSE LET r == _get_api_key_static(files, env, last.service, None,
                                          keys_file, use_env)
             IN  /\ last.ret = r.ret
                 /\ last.raised = r.raised
                 /\ last.error = r.error

\* the service is not registered and the fallback finds its key in a key file
C11_Witness ==
    /\ last.op = "get_api_key"
    /\ last.service \notin DOMAIN services_info
    /\ last.raised = ""
    /\ last.ret = "file1"

\* C12: add_key(service, key, env=True) with a non-empty key returns True,
\* sets the environment variable of the service (the mapped name of a
\* well-known service, otherwise the upper-cased service name followed by
\* "_API_KEY") to the key and changes no other variable, leaves a credential
\* for the service with that api_key and source "environment" whatever
\* credential the service had, and writes no key file and creates no directory.
C12_AddKeyToEnvironment ==
    [][ (last'.op = "add_key" /\ last'.flag /\ last'.key # "") =>
          LET service == last'.service
              var == IF service = openai THEN OPENAI_API_KEY
                     ELSE IF service = anthropic THEN ANTHROPIC_API_KEY
                     ELSE IF service = huggingface THEN HF_API_KEY
                     ELSE str_upper(service) \o _API_KEY
          IN  /\ last'.ret = "True"
              /\ last'.raised = ""
              /\ DOMAIN env' = (DOMAIN env) \cup {var}
              /\ env'[var] = last'.key
              /\ \A v \in (DOMAIN env) \ {var} : env'[v] = env[v]
              /\ service \in DOMAIN services_info'
              /\ services_info'[service].api_key = last'.key
              /\ services_info'[service].source = "environment"
              /\ files' = files
              /\ custom_dir' = custom_dir ]_vars

\* a service the registry loaded from its key file is added to the
\* environment under a derived variable name
C12_Witness ==
    /\ last.op = "add_key"
    /\ last.flag
    /\ last.service = foobar
    /\ last.key = "new1"
    /\ last.ret = "True"
    /\ keys_file = CUSTOM_KEYS_FILE
    /\ files[CUSTOM_KEYS_FILE].json
    /\ foobar \in DOMAIN files[CUSTOM_KEYS_FILE].keys
    /\ files[CUSTOM_KEYS_FILE].keys[foobar] = "file1"
    /\ services_info[foobar].source = "environment"
    /\ env[FOOBAR_API_KEY] = "new1"

\* C13: an add_key(service, key, env=False) that returns True leaves the
\* registry's key file a JSON object that maps the service to the key and
\* holds every other entry it held before with the same value (and no entry
\* more), leaves every other file as it was, leaves a credential for the
\* service with that api_key and source "file" whatever credential the
\* service had, and does not change the environment.
C13_AddKeyToFile ==
    [][ (last'.op = "add_key" /\ ~last'.flag /\ last'.ret = "True") =>
          LET service == last'.service
              kf == keys_file
              before == IF files[kf].exists /\ files[kf].json
                        THEN files[kf].keys ELSE EmptyDict
          IN  /\ files'[kf].exists
              /\ files'[kf].json
              /\ DOMAIN files'[kf].keys = (DOMAIN before) \cup {service}
              /\ files'[kf].keys[service] = last'.key
              /\ \A n \in (DOMAIN before) \ {service} : files'[kf].keys[n] = before[n]
              /\ \A p \in Paths \ {kf} : files'[p] = files[p]
              /\ service \in DOMAIN services_info'
              /\ services_info'[service].api_key = last'.key
              /\ services_info'[service].source = "file"
              /\ env' = env ]_vars

\* a service the registry loaded from the environment is added to a key file
\* that holds other entries
C13_Witness ==
    /\ last.op = "add_key"
    /\ ~last.flag
    /\ last.service = openai
    /\ last.ret = "True"
    /\ use_env
    /\ OPENAI_API_KEY \in DOMAIN env
    /\ env[OPENAI_API_KEY] = "env1"
    /\ services_info[openai].source = "file"
    /\ services_info[openai].api_key = "new1"
    /\ keys_file = CUSTOM_KEYS_FILE
    /\ DOMAIN files[CUSTOM_KEYS_FILE].keys = {openai, anthropic, comment, foobar}
    /\ files[CUSTOM_KEYS_FILE].keys[openai] = "new1"

\* C14: for a non-empty key, update_key(service, key) returns or raises what
\* add_key(service, key, env) does in the same state and leaves the same
\* registry contents, environment, key files and directories, where env is
\* True when the service is registered with source "environment" and False
\* when it is registered with source "file" or is not registered; the source
\* of a credential that was registered is the same after the call.
C14_UpdateKeyActsAsAddKey ==
    [][ (last'.op = "update_key" /\ last'.key # "") =>
          LET service == last'.service
              registered == service \in DOMAIN services_info
              to_env == registered /\ services_info[service].source = "environment"
              a == add_key(World, keys_file, service, last'.key, to_env,
                           last'.io, last'.response)
          IN  /\ last'.ret = a.ret
              /\ last'.raised = a.raised
              /\ env' = a.w.env
              /\ files' = a.w.files
              /\ custom_dir' = a.w.custom_dir
              /\ ViewOf(services_info', heap') = ViewOf(a.w.si, a.w.heap)
              /\ \A s \in DOMAIN services_info :
                    /\ s \in DOMAIN services_info'
                    /\ services_info'[s].source = services_info[s].source ]_vars

\* the key of a service registered from the environment has been updated
C14_Witness ==
    /\ last.op = "update_key"
    /\ last.service = openai
    /\ last.key = "new1"
    /\ last.ret = "True"
    /\ services_info[openai].source = "environment"
    /\ services_info[openai].api_key = "new1"
    /\ env[OPENAI_API_KEY] = "new1"

\* C15: when requests.get answers the validation probe of a service with
\* status 200, the credential of the service has valid = True; its models
\* are the identifiers of the listing, in the order of the listing, when the
\* body is a listing in the shape of the provider, and the empty list when the
\* body is not JSON or is JSON of another shape.
C15_Http200MarksValid ==
    (/\ last.op \in {"_validate_keys", "add_key", "update_key"}
     /\ last.probed # {}
     /\ ~last.response.exc
     /\ last.response.status = 200) =>
        LET service == last.service
            c == RegistryView[service]
        IN  /\ last.probed = {service}
            /\ c.valid = "True"
            /\ (service = openai /\ last.response = OkOpenAI)
                  => c.models = <<"gpt-4", "gpt-3.5">>
            /\ (service = anthropic /\ last.response = OkAnthropic)
                  => c.models = <<"claude-3", "claude-2">>
            /\ (~last.response.json \/ last.response = OkUnexpected(service))
                  => c.models = <<>>

\* a key was added and the probe answered 200 with a listing that has a
\* model without identifier
C15_Witness ==
    /\ last.op = "add_key"
    /\ last.service = openai
    /\ last.response = OkUnexpected(openai)
    /\ last.probed = {openai}
    /\ RegistryView[openai].valid = "True"
    /\ RegistryView[openai].models = <<>>

\* C16: after KeyManager(keys_file, use_env, validate_keys=False) the
\* registry holds a credential for exactly: the well-known services whose
\* environment variable is set and non-empty, when use_env is True; and the
\* names of the key file that have a non-empty value, do not start with "_"
\* and are not "comment".  Every credential has valid = None and an empty
\* models list.
C16_ConstructionLoadsKeys ==
    (last.op = "__init__" /\ ~last.validate) =>
        LET kf == IF last.path # None THEN last.path
                  ELSE IF files[LOCAL_KEYS_FILE].exists THEN LOCAL_KEYS_FILE
                  ELSE IF files[PARENT_KEYS_FILE].exists THEN PARENT_KEYS_FILE
                  ELSE LOCAL_KEYS_FILE
            file_keys == IF files[kf].exists /\ files[kf].json
                         THEN files[kf].keys ELSE EmptyDict
            from_env == IF last.flag
                        THEN { s \in {openai, anthropic, huggingface} :
                                  /\ ENV_PREFIXES[s] \in DOMAIN env
                                  /\ env[ENV_PREFIXES[s]] # "" }
                        ELSE {}
            from_file == { n \in DOMAIN file_keys :
                              /\ file_keys[n] # ""
                              /\ (Len(n) = 0 \/ n[1] # "_")
                              /\ n # comment }
        IN  /\ DOMAIN services_info = from_env \cup from_file
            /\ \A s \in DOMAIN services_info :
                  /\ RegistryView[s].valid = None
                  /\ RegistryView[s].models = <<>>

\* a registry constructed without validation on a key file with two keys and
\* a "_comment" entry
C16_Witness ==
    /\ last.op = "__init__"
    /\ ~last.validate
    /\ keys_file = CUSTOM_KEYS_FILE
    /\ files[CUSTOM_KEYS_FILE].json
    /\ DOMAIN files[CUSTOM_KEYS_FILE].keys = {openai, foobar, _comment}
    /\ DOMAIN services_info = {openai, foobar}

\* C17: no call of requests.get is ever made for a service other than
\* openai, anthropic and huggingface, and the credential of such a service
\* has valid = None in every state, whatever construction (with or without
\* validation), add_key and update_key did.
C17_UnknownServiceNeverProbed ==
    /\ last.probed \subseteq {openai, anthropic, huggingface}
    /\ \A s \in (DOMAIN services_info) \ {openai, anthropic, huggingface} :
          services_info[s].valid = None

\* a key was stored for a service without endpoint
C17_Witness ==
    /\ last.op \in {"add_key", "update_key"}
    /\ last.service = foobar
    /\ last.ret = "True"
    /\ last.probed = {}
    /\ foobar \in DOMAIN services_info
    /\ services_info[foobar].api_key = "new1"
    /\ services_info[foobar].valid = None

(***************************************************************************)
(* Properties of the registry's own operations (checked under SpecOps).    *)
(***************************************************************************)
\* C18: in every state that construction, add_key and update_key reach, with
\* any probe outcomes, a credential whose valid is False or None has an empty
\* models list; so a key that replaces a validated key and fails its own
\* validation keeps none of the models of the key it replaced.
C18_ModelsOnlyWhenValid ==
    \A s \in DOMAIN services_info :
        services_info[s].valid # "True" => heap[services_info[s].models] = <<>>

\* the key of a service that construction validated (there are validated
\* credentials only after a validating construction) was replaced by a key
\* the probe rejected
C18_Witness ==
    /\ last.op = "update_key"
    /\ last.service = openai
    /\ last.response = Unauthorized
    /\ services_info[openai].valid = "False"
    /\ heap[services_info[openai].models] = <<>>
    /\ anthropic \in DOMAIN services_info
    /\ services_info[anthropic].valid = "True"
    /\ heap[services_info[anthropic].models] = <<"claude-3", "claude-2">>

(***************************************************************************)
(* Properties of AiService (checked under SpecService).                    *)
(***************************************************************************)
\* C20: an AiService is initialized only if the registry holds a credential
\* for its service with valid = True and, when the models of the credential
\* are not empty, its model is one of them; when the service is not
\* registered or its valid is False or None the AiService is not initialized
\* and its construction has not looked at the models of the credential.
C20_ServiceNeedsValidCredential ==
    last.op = "AiService" =>
        LET s == ai.service_supplier
            valid == s \in DOMAIN services_info /\ services_info[s].valid = "True"
        IN  /\ ai.exists
            /\ ai.initialized =>
                  /\ valid
                  /\ heap[services_info[s].models] # <<>> =>
                        \E i \in 1..Len(heap[services_info[s].models]) :
                            heap[services_info[s].models][i] = ai.model
            /\ ~valid => (~ai.initialized /\ "models" \notin last.read)

\* the credential is not valid, its models list is not empty and holds the
\* model asked for, and the AiService is not initialized
C20_Witness ==
    /\ last.op = "AiService"
    /\ ai.service_supplier = openai
    /\ ai.model = "injected"
    /\ openai \in DOMAIN services_info
    /\ services_info[openai].valid # "True"
    /\ heap[services_info[openai].models] = <<"injected">>
    /\ ~ai.initialized

(***************************************************************************)
(* Properties of the token budget (checked under SpecBudget).              *)
(***************************************************************************)
\* C21: every recording of usage (add_tokens_in, add_tokens_out, or the
\* usage of a completion) that leaves tokens_in + tokens_out at 1,000,000 or
\* more leaves the service on hold with token_budget = 0; a service on hold
\* stays on hold through every call but bump_budget; and chat_completion on
\* a service that is on hold or not initialized raises ValueError without
\* calling requests.post and without changing the object.
C21_DepletedServiceRefuses ==
    [][ /\ (/\ last'.op \in {"add_tokens_in", "add_tokens_out", "chat_completion"}
            /\ <<ai'.tokens_in, ai'.tokens_out>> # <<ai.tokens_in, ai.tokens_out>>
            /\ ai'.tokens_in + ai'.tokens_out >= 1000000)
              => (ai'.hold /\ ai'.token_budget = 0)
        /\ (ai.hold /\ last'.op # "bump_budget") => ai'.hold
        /\ (last'.op = "chat_completion" /\ (ai.hold \/ ~ai.initialized))
              => /\ last'.raised = "ValueError"
                 /\ ~last'.posted
                 /\ ai' = ai ]_vars

\* an initialized service whose usage reached 1,000,000 refused a completion
C21_Witness ==
    /\ last.op = "chat_completion"
    /\ ai.initialized
    /\ ai.hold
    /\ ai.token_budget = 0
    /\ ai.tokens_in + ai.tokens_out >= 1000000
    /\ last.raised = "ValueError"
    /\ ~last.posted

\* C28: after bump_budget(n), n > 0, on a service whose token_budget was 0,
\* the service is still off hold after a recording of fewer than n further
\* tokens.  (Stated for the first recording after the bump; violated.)
C28_BumpedBudgetRetained ==
    [][ (/\ last.op = "bump_budget"
         /\ last.num > 0
         /\ ai.token_budget = last.num
         /\ last'.op \in {"add_tokens_in", "add_tokens_out"}
         /\ last'.num < last.num)
          => (~ai'.hold /\ ai'.token_budget > 0) ]_vars

(***************************************************************************)
(* Properties of the Chat object (checked under SpecChat).                 *)
(***************************************************************************)
\* C22: after Chat.clear_history() the conversation history is exactly the
\* first message of role system that was in the history before the call, or
\* is empty if there was none; no user or assistant message survives,
\* whatever questions and loads preceded the call.
C22_ClearHistoryKeepsFirstSystem ==
    [][ last'.op = "clear_history" =>
          LET before == chat.conversation_history
              after  == chat'.conversation_history
              sys    == { i \in 1..Len(before) : before[i].role = "system" }
          IN  /\ \A i \in 1..Len(after) : after[i].role \notin {"user", "assistant"}
              /\ sys = {} => after = <<>>
              /\ sys # {} =>
                    \E i \in sys : /\ \A j \in 1..(i - 1) : before[j].role # "system"
                                   /\ after = <<before[i]>> ]_vars

\* a history that was loaded with a system message behind a user message, or
\* with two system messages, was cleared down to its first system message
C22_Witness ==
    /\ last.op = "clear_history"
    /\ chat.conversation_history = <<Message("system", "s1")>>

\* C23: each successful Chat.ask_question(question) appends exactly two
\* messages to the conversation history, the user message with the question
\* and then the assistant message with the returned response; so a history
\* that is the initial system message followed by alternating user and
\* assistant messages (as it is after construction) is again of that shape,
\* two messages longer, after every successful question asked without
\* clear_history.
C23_SuccessfulQuestionAppendsExchange ==
    [][ LET Initial(c) == IF c.system_message # ""
                          THEN <<Message("system", c.system_message)>> ELSE <<>>
            Alternating(c) ==
                LET h == c.conversation_history
                    n == Len(Initial(c))
                IN  /\ Len(h) >= n
                    /\ SubSeq(h, 1, n) = Initial(c)
                    /\ (Len(h) - n) % 2 = 0
                    /\ \A i \in (n + 1)..Len(h) :
                          h[i].role = IF (i - n) % 2 = 1 THEN "user" ELSE "assistant"
        IN  /\ nops = 0 => Alternating(chat)
            /\ (last'.op = "ask_question" /\ last'.raised = "" /\ ~last'.clear) =>
                  /\ chat'.conversation_history =
                        chat.conversation_history \o
                           <<[role |-> "user", content |-> last'.question],
                             [role |-> "assistant", content |-> last'.ret]>>
                  /\ Alternating(chat) => Alternating(chat') ]_vars

\* two questions were answered one after the other
C23_Witness ==
    /\ last.op = "ask_question"
    /\ last.raised = ""
    /\ chat.conversation_history =
          <<Message("system", "sys"), Message("user", "q2"), Message("assistant", "a2"),
            Message("user", "q1"), Message("assistant", "a2")>>

\* C29: if Chat.ask_question raises (the service is unavailable or the
\* completion request fails), the conversation history and last_request_info
\* are the same as before the call.
C29_FailedQuestionLeavesChatUnchanged ==
    [][ (last'.op = "ask_question" /\ last'.raised # "") =>
           /\ chat'.conversation_history = chat.conversation_history
           /\ chat'.last_request_info = chat.last_request_info ]_vars

(***************************************************************************)
(* Properties of the stream processor (checked under SpecStream).          *)
(***************************************************************************)
RECURSIVE Concatenation(_)
Concatenation(strings) ==
    IF strings = <<>> THEN "" ELSE Head(strings) \o Concatenation(Tail(strings))

\* C24: process_openai_stream returns the concatenation, in arrival order, of
\* the delta contents of the well-formed "data: " lines that precede the
\* first end mark "data: [DONE]"; blank lines, lines without the prefix and
\* lines that fail to parse contribute nothing and do not stop the
\* processing, nothing behind the end mark is consumed, and the chunk handler
\* is called once for each contributing chunk, in the same order.
C24_StreamContentInOrder ==
    last.op = "process_openai_stream" =>
       LET lines == last.lines
           Payload(line) == SubSeq(line, 7, Len(line))
           IsData(line) == startswith(line, DATA_PREFIX)
           IsDone(line) == IsData(line) /\ strip(Payload(line)) = DONE_MARK
           done == { i \in 1..Len(lines) : IsDone(lines[i]) }
           stop == IF done = {} THEN Len(lines) + 1
                   ELSE CHOOSE i \in done : \A j \in done : i <= j
           Contributes(line) == IsData(line) /\ DeltaContent(Payload(line)).adds
           contributing == SelectSeq(SubSeq(lines, 1, stop - 1), Contributes)
           contents == [k \in 1..Len(contributing) |->
                           DeltaContent(Payload(contributing[k])).content]
       IN  /\ last.ret = Concatenation(contents)
           /\ last.handled = IF last.key = "collects" THEN contents ELSE <<>>

\* a content came before the end mark and another one behind it
C24_Witness ==
    /\ last.op = "process_openai_stream"
    /\ last.key = "collects"
    /\ last.lines = <<DATA_PREFIX \o <<"{He}">>,
                      DATA_PREFIX \o <<" ">> \o DONE_MARK \o <<"\n">>,
                      DATA_PREFIX \o <<" ", "{llo}", "\n">>>>
    /\ last.ret = "He"
    /\ last.handled = <<"He">>

(***************************************************************************)
(* The registry against the stateless resolver (checked under Spec).       *)
(***************************************************************************)
\* C25: for a service that is registered, the registry's get_api_key(service)
\* returns the key that the stateless resolver returns when called with no
\* explicit key, the registry's key file and the registry's environment flag,
\* in the same environment and file system.
C25_RegistryAgreesWithResolver ==
    (last.op = "get_api_key" /\ last.service \in DOMAIN services_info) =>
       LET r == _get_api_key_static(files, env, last.service, None, keys_file, use_env)
       IN  /\ last.raised = ""
           /\ r.raised = ""
           /\ last.ret = r.ret

(***************************************************************************)
(* Credentials and their sources (checked under SpecSources).              *)
(***************************************************************************)
\* C26: in every state reached by constructing a registry and then applying
\* add_key and update_key calls for any service names, with nothing else
\* changing the environment or the key file, each registered credential
\* agrees with its recorded source: one with source file has the api_key that
\* the key file holds under its service name, one with source environment has
\* the api_key that is the current value of its environment variable.
C26_CredentialsAgreeWithSource ==
    \A s \in DOMAIN services_info :
       /\ services_info[s].source = "file" =>
             /\ path_exists(files, keys_file)
             /\ files[keys_file].json
             /\ s \in DOMAIN files[keys_file].keys
             /\ files[keys_file].keys[s] = services_info[s].api_key
       /\ services_info[s].source = "environment" =>
             environ_get(env, EnvVarFor(s)) = services_info[s].api_key

(***************************************************************************)
(* A key stored in the environment and a later registry (checked under     *)
(* SpecAgain).                                                             *)
(***************************************************************************)
\* C27: a key registered with add_key(service, key, env=True) is discovered
\* again, with the same api_key and source environment, by a registry that is
\* constructed afterwards in the same process with use_env true, for every
\* service name, well-known or custom.
C27_EnvironmentKeyDiscoveredAgain ==
    [][ (/\ last.op = "add_key"
         /\ last.flag
         /\ last.ret = "True"
         /\ last'.op = "__init__"
         /\ last'.flag)
          => /\ last.service \in DOMAIN services_info'
             /\ services_info'[last.service].api_key = last.key
             /\ services_info'[last.service].source = "environment" ]_vars

(***************************************************************************)
(* Properties of the OpenAIService object (checked under SpecOpenAI).      *)
(***************************************************************************)
\* C30: OpenAIService.set_service(service) returns false instead of raising
\* when the service is not listed in the keys file or no key can be resolved
\* for it, and whenever it returns false the object's service_name and its
\* API connection are the same as before the call.
C30_FailedSetServiceChangesNothing ==
    [][ last'.op = "set_service" =>
          LET listed == last'.service \in get_services(files, openai_service.keys_file)
              resolved == _get_api_key_static(files, env, last'.service, None,
                                              openai_service.keys_file,
                                              openai_service.use_env).raised = ""
          IN  /\ last'.raised = ""
              /\ (~listed \/ ~resolved) => last'.ret = "False"
              /\ last'.ret = "False" =>
                    /\ openai_service'.service_name = openai_service.service_name
                    /\ openai_service'.api = openai_service.api ]_vars

====
